---- MODULE Spec2Model ----
(***************************************************************************)
(* Shield-SMS: the rule based smishing classifier (ModeloML/rules_model),  *)
(* the pattern extractors (PLN/preprocessing) and the URL utilities        *)
(* (utils/url_check), as a state machine whose actions are calls of the    *)
(* public functions.                                                       *)
(*                                                                         *)
(* A Python str is a sequence of one-character strings.  A regular         *)
(* expression P becomes an operator P(t, i): the index just past the match *)
(* of P that starts at index i of t, or 0 when P does not match there      *)
(* (re's leftmost, greedy, backtracking semantics, worked out per pattern).*)
(***************************************************************************)
EXTENDS Integers, Sequences, FiniteSets, TLC

----------------------------------------------------------------------------
(* Characters and the character classes used by str methods and by re.     *)

Lower == {"a","b","c","d","e","f","g","h","i","j","k","l","m",
          "n","o","p","q","r","s","t","u","v","w","x","y","z"}
Upper == {"A","B","C","D","E","F","G","H","I","J","K","L","M",
          "N","O","P","Q","R","S","T","U","V","W","X","Y","Z"}
Digit == {"0","1","2","3","4","5","6","7","8","9"}
AccentLower == {"á","é","í","ó","ú","ñ","ü"}
AsciiAlpha == Lower \cup Upper
\* str.isalpha / str.isupper
Alpha == AsciiAlpha \cup AccentLower
\* \w and \s of a str pattern
WordChar == Alpha \cup Digit \cup {"_"}
Space == {" ", "\t", "\n", "\r"}

UpperSeq == <<"A","B","C","D","E","F","G","H","I","J","K","L","M",
              "N","O","P","Q","R","S","T","U","V","W","X","Y","Z">>
LowerSeq == <<"a","b","c","d","e","f","g","h","i","j","k","l","m",
              "n","o","p","q","r","s","t","u","v","w","x","y","z">>
LowerMap == [c \in Upper |-> LowerSeq[CHOOSE k \in 1..26 : UpperSeq[k] = c]]
\* str.lower()
lower(t) == [k \in 1..Len(t) |-> IF t[k] \in Upper THEN LowerMap[t[k]] ELSE t[k]]

\* str.strip() == "" : only whitespace (or nothing) in t
IsBlank(t) == \A k \in 1..Len(t) : t[k] \in Space

\* the character at index i, "" outside the string
At(t, i) == IF i >= 1 /\ i <= Len(t) THEN t[i] ELSE ""
\* \b just before index i
IsBoundary(t, i) == (At(t, i - 1) \in WordChar) # (At(t, i) \in WordChar)
\* t[i..] starts with w
StartsWith(t, i, w) ==
  /\ i >= 1
  /\ i + Len(w) - 1 <= Len(t)
  /\ \A k \in 1..Len(w) : t[i + k - 1] = w[k]

\* the same ignoring case, for a lowercase w (re.IGNORECASE)
StartsWithCI(t, i, w) ==
  /\ i >= 1
  /\ i + Len(w) - 1 <= Len(t)
  /\ \A k \in 1..Len(w) :
       (IF t[i + k - 1] \in Upper THEN LowerMap[t[i + k - 1]] ELSE t[i + k - 1]) = w[k]

MaxOf(S) == CHOOSE m \in S : \A n \in S : n <= m
MinOf(S) == CHOOSE m \in S : \A n \in S : m <= n

\* the index just past the longest run of characters of class C from index i
RunEnd(t, i, C) ==
  LET stops == {k \in i..Len(t) : t[k] \notin C}
  IN IF i > Len(t) THEN i ELSE IF stops = {} THEN Len(t) + 1 ELSE MinOf(stops)

\* the same for the complement of class C
RunEndNot(t, i, C) ==
  LET stops == {k \in i..Len(t) : t[k] \in C}
  IN IF i > Len(t) THEN i ELSE IF stops = {} THEN Len(t) + 1 ELSE MinOf(stops)

RECURSIVE Scan(_, _, _)
\* re.findall: the matches found scanning left to right, each search resuming
\* where the previous match ended; ends[i] is the pattern's result at i
Scan(ends, t, i) ==
  LET hits == {k \in i..Len(t) : ends[k] > 0}
  IN IF hits = {} THEN <<>>
     ELSE LET j == MinOf(hits)
          IN <<SubSeq(t, j, ends[j] - 1)>> \o Scan(ends, t, ends[j])

\* x in y for two str: x is a substring of y
IsSubstring(x, y) ==
  \E i \in 1..(Len(y) - Len(x) + 1) : StartsWith(y, i, x)

----------------------------------------------------------------------------
(* PLN/preprocessing.py                                                    *)

\* the keywords in the order the set yields them to a loop: Python fixes an
\* order of its own, here the alphabetical one
PALABRAS_EN_ORDEN ==
  <<
    <<"a","c","c","e","s","o">>,
    <<"a","c","c","o","u","n","t">>,
    <<"a","c","t","u","a","l","i","z","a","r">>,
    <<"a","h","o","r","a">>,
    <<"a","l","e","r","t">>,
    <<"b","a","n","c","o">>,
    <<"b","a","n","k">>,
    <<"b","l","o","c","k">>,
    <<"b","l","o","q","u","e","a","r">>,
    <<"b","o","n","u","s">>,
    <<"c","a","d","u","c","a","r">>,
    <<"c","a","l","l">>,
    <<"c","a","r","d">>,
    <<"c","a","s","h">>,
    <<"c","h","a","n","c","e">>,
    <<"c","l","a","i","m">>,
    <<"c","l","a","v","e">>,
    <<"c","l","i","c","k">>,
    <<"c","o","d","e">>,
    <<"c","o","d","i","g","o">>,
    <<"c","o","n","f","i","r","m">>,
    <<"c","o","n","f","i","r","m","a","r">>,
    <<"c","o","n","g","r","a","t","s">>,
    <<"c","o","n","g","r","a","t","u","l","a","t","i","o","n","s">>,
    <<"c","o","n","t","a","c","t","a","r">>,
    <<"c","o","n","t","r","a","s","e","ñ","a">>,
    <<"c","r","e","d","i","t">>,
    <<"c","u","e","n","t","a">>,
    <<"c","u","s","t","o","m","e","r">>,
    <<"c","ó","d","i","g","o">>,
    <<"d","e","s","c","u","e","n","t","o">>,
    <<"d","i","s","c","o","u","n","t">>,
    <<"e","x","p","i","r","e">>,
    <<"e","x","p","i","r","e","d">>,
    <<"f","e","l","i","c","i","d","a","d","e","s">>,
    <<"f","i","n","a","l">>,
    <<"f","r","e","e">>,
    <<"g","a","n","a">>,
    <<"g","a","n","a","d","o","r">>,
    <<"g","a","n","a","s","t","e">>,
    <<"g","i","f","t">>,
    <<"g","r","a","t","i","s">>,
    <<"g","u","a","r","a","n","t","e","e","d">>,
    <<"h","e","l","p","d","e","s","k">>,
    <<"i","m","m","e","d","i","a","t","e","l","y">>,
    <<"i","m","p","o","r","t","a","n","t">>,
    <<"i","n","m","e","d","i","a","t","o">>,
    <<"l","a","s","t">>,
    <<"l","i","m","i","t","a","d","o">>,
    <<"l","i","m","i","t","e","d">>,
    <<"l","l","a","m","a">>,
    <<"l","l","a","m","a","r">>,
    <<"m","o","b","i","l","e">>,
    <<"m","s","g">>,
    <<"n","o","t","i","c","e">>,
    <<"n","o","w">>,
    <<"o","f","e","r","t","a">>,
    <<"o","f","f","e","r">>,
    <<"o","p","p","o","r","t","u","n","i","t","y">>,
    <<"o","p","t","-","o","u","t">>,
    <<"p","a","s","s","w","o","r","d">>,
    <<"p","i","n">>,
    <<"p","r","e","m","i","o">>,
    <<"p","r","i","z","e">>,
    <<"p","r","o","m","o","c","i","ó","n">>,
    <<"p","r","o","m","o","t","i","o","n">>,
    <<"r","e","p","l","y">>,
    <<"r","e","s","p","o","n","d","e","r">>,
    <<"r","e","w","a","r","d">>,
    <<"s","e","c","u","r","i","t","y">>,
    <<"s","e","g","u","r","i","d","a","d">>,
    <<"s","e","r","v","i","c","e">>,
    <<"s","t","o","p">>,
    <<"s","u","p","p","o","r","t">>,
    <<"s","u","s","p","e","n","d">>,
    <<"s","u","s","p","e","n","d","e","r">>,
    <<"t","a","r","j","e","t","a">>,
    <<"t","e","x","t">>,
    <<"t","x","t">>,
    <<"u","n","s","u","b","s","c","r","i","b","e">>,
    <<"u","p","d","a","t","e">>,
    <<"u","r","g","e","n","t">>,
    <<"u","r","g","e","n","t","e">>,
    <<"v","e","r","i","f","i","c","a">>,
    <<"v","e","r","i","f","i","c","a","r">>,
    <<"v","e","r","i","f","y">>,
    <<"w","a","r","n","i","n","g">>,
    <<"w","i","n">>,
    <<"w","i","n","n","e","r">>,
    <<"w","o","n">>
  >>

PALABRAS_CLAVE_SOSPECHOSAS ==
  {PALABRAS_EN_ORDEN[k] : k \in 1..Len(PALABRAS_EN_ORDEN)}

(* Python values passed as the text argument: None, a str, or any other     *)
(* object (an int, a list, ...), of which only its truth value matters.     *)
PyNone == [kind |-> "None", truthy |-> FALSE, s |-> <<>>]
PyOther(b) == [kind |-> "other", truthy |-> b, s |-> <<>>]
PyStr(t) == [kind |-> "str", truthy |-> Len(t) > 0, s |-> t]
\* isinstance(x, str)
IsStr(x) == x.kind = "str"

HttpClass == Space
WwwClass == AsciiAlpha \cup Digit \cup {".", "-"}
DomainClass == AsciiAlpha \cup Digit \cup {"-"}
EmailLocalClass == AsciiAlpha \cup Digit \cup {".", "_", "%", "+", "-"}
EmailDomainClass == AsciiAlpha \cup Digit \cup {".", "-"}
EmailTldClass == AsciiAlpha \cup {"|"}

\* https?://[^\s]+
URL_HTTP_PATTERN(t, i) ==
  LET p == IF StartsWith(t, i, <<"h","t","t","p","s",":","/","/">>) THEN i + 8
           ELSE IF StartsWith(t, i, <<"h","t","t","p",":","/","/">>) THEN i + 7
           ELSE 0
      e == RunEndNot(t, p, HttpClass)
  IN IF p > 0 /\ e > p THEN e ELSE 0

\* the index just past "\.[a-zA-Z]{2,}" for the last dot d of t[from..to-1]
\* that is followed by two letters or more, 0 when there is none: where a
\* greedy "[...]+" that must be followed by "\.[a-zA-Z]{2,}" ends up
LastDotTld(t, from, to) ==
  LET dots == {d \in from..(to - 1) :
                 t[d] = "." /\ RunEnd(t, d + 1, AsciiAlpha) >= d + 3}
  IN IF dots = {} THEN 0 ELSE RunEnd(t, MaxOf(dots) + 1, AsciiAlpha)

\* www\.[a-zA-Z0-9.-]+\.[a-zA-Z]{2,}
URL_WWW_PATTERN(t, i) ==
  IF StartsWith(t, i, <<"w","w","w",".">>)
  THEN LastDotTld(t, i + 5, RunEnd(t, i + 4, WwwClass))
  ELSE 0

\* \b[a-zA-Z0-9-]+\.[a-zA-Z]{2,}\b
URL_DOMAIN_PATTERN(t, i) ==
  LET e1 == RunEnd(t, i, DomainClass)
      e2 == RunEnd(t, e1 + 1, AsciiAlpha)
  IN IF /\ IsBoundary(t, i)
        /\ e1 > i
        /\ At(t, e1) = "."
        /\ e2 >= e1 + 3
        /\ IsBoundary(t, e2)
     THEN e2 ELSE 0

\* \b[A-Za-z0-9._%+-]+@[A-Za-z0-9.-]+\.[A-Z|a-z]{2,}\b
EMAIL_PATTERN(t, i) ==
  LET e1 == RunEnd(t, i, EmailLocalClass)
      e2 == RunEnd(t, e1 + 1, EmailDomainClass)
      \* the ends the top level domain can take after the dot d
      tldEnds(d) == {e \in (d + 3)..RunEnd(t, d + 1, EmailTldClass) : IsBoundary(t, e)}
      dots == {d \in (e1 + 2)..(e2 - 1) : t[d] = "." /\ tldEnds(d) # {}}
  IN IF IsBoundary(t, i) /\ e1 > i /\ At(t, e1) = "@" /\ dots # {}
     THEN MaxOf(tldEnds(MaxOf(dots))) ELSE 0

\* \b\d{3,}\b
NUMBER_PATTERN(t, i) ==
  LET e == RunEnd(t, i, Digit)
  IN IF IsBoundary(t, i) /\ e >= i + 3 /\ IsBoundary(t, e) THEN e ELSE 0

RECURSIVE Thousands(_, _)
\* (?:,\d{3})* from index j
Thousands(t, j) ==
  IF At(t, j) = "," /\ RunEnd(t, j + 1, Digit) >= j + 4
  THEN Thousands(t, j + 4) ELSE j

\* \d+(?:,\d{3})*(?:\.\d{2})? : the part the four amount patterns share
AmountDigits(t, i) ==
  LET e1 == RunEnd(t, i, Digit)
      e2 == Thousands(t, e1)
  IN IF e1 = i THEN 0
     ELSE IF At(t, e2) = "." /\ RunEnd(t, e2 + 1, Digit) >= e2 + 3 THEN e2 + 3
     ELSE e2

\* <symbol>\s*\d+(?:,\d{3})*(?:\.\d{2})? for the symbols $, S/ and £
SymbolAmount(sym, t, i) ==
  IF StartsWith(t, i, sym)
  THEN AmountDigits(t, RunEnd(t, i + Len(sym), Space)) ELSE 0

\* \$\s*\d+(?:,\d{3})*(?:\.\d{2})?
MONEY_DOLLAR_PATTERN(t, i) == SymbolAmount(<<"$">>, t, i)
\* S/\s*\d+(?:,\d{3})*(?:\.\d{2})?
MONEY_SOLES_PATTERN(t, i) == SymbolAmount(<<"S","/">>, t, i)
\* £\s*\d+(?:,\d{3})*(?:\.\d{2})?
MONEY_POUND_PATTERN(t, i) == SymbolAmount(<<"£">>, t, i)

CurrencyCodes == { <<"u","s","d">>, <<"e","u","r">>, <<"g","b","p">>,
                   <<"p","e","n">>, <<"s","o","l">>, <<"s","o","l","e","s">> }

\* \b\d+(?:,\d{3})*(?:\.\d{2})?\s*(?:USD|EUR|GBP|PEN|SOL|SOLES)\b, IGNORECASE
MONEY_CURRENCY_PATTERN(t, i) ==
  LET a == AmountDigits(t, i)
      c == RunEnd(t, a, Space)
      ends == {c + Len(w) : w \in {w \in CurrencyCodes :
                 StartsWithCI(t, c, w) /\ IsBoundary(t, c + Len(w))}}
  IN IF IsBoundary(t, i) /\ a > 0 /\ ends # {} THEN MaxOf(ends) ELSE 0

\* re.findall for each compiled pattern
FindHttp(t) == Scan([i \in 1..Len(t) |-> URL_HTTP_PATTERN(t, i)], t, 1)
FindWww(t) == Scan([i \in 1..Len(t) |-> URL_WWW_PATTERN(t, i)], t, 1)
FindDomain(t) == Scan([i \in 1..Len(t) |-> URL_DOMAIN_PATTERN(t, i)], t, 1)
FindEmail(t) == Scan([i \in 1..Len(t) |-> EMAIL_PATTERN(t, i)], t, 1)
FindNumber(t) == Scan([i \in 1..Len(t) |-> NUMBER_PATTERN(t, i)], t, 1)
FindDollar(t) == Scan([i \in 1..Len(t) |-> MONEY_DOLLAR_PATTERN(t, i)], t, 1)
FindCurrency(t) == Scan([i \in 1..Len(t) |-> MONEY_CURRENCY_PATTERN(t, i)], t, 1)
FindSoles(t) == Scan([i \in 1..Len(t) |-> MONEY_SOLES_PATTERN(t, i)], t, 1)
FindPound(t) == Scan([i \in 1..Len(t) |-> MONEY_POUND_PATTERN(t, i)], t, 1)

\* the loop with a test of equality: a candidate is dropped only when the
\* list holds that very string
AppendNewExact(urls, dominios) ==
  urls \o SelectSeq(dominios, LAMBDA d : \A k \in 1..Len(urls) : urls[k] # d)

RECURSIVE AppendNew(_, _)
\* the loop of extraer_urls: a candidate that is a substring of an entry
\* already in the list is dropped, any other is appended
AppendNew(urls, dominios) ==
  IF dominios = <<>> THEN urls
  ELSE LET d == Head(dominios)
       IN IF \E k \in 1..Len(urls) : IsSubstring(d, urls[k])
          THEN AppendNew(urls, Tail(dominios))
          ELSE AppendNew(Append(urls, d), Tail(dominios))

\* an extractor that reports no URL at all
extraer_urls_ninguna(x) == <<>>

extraer_urls(x) ==
  IF ~x.truthy \/ ~IsStr(x) THEN <<>>
  ELSE AppendNew(FindHttp(x.s) \o FindWww(x.s), FindDomain(x.s))

extraer_emails(x) ==
  IF ~x.truthy \/ ~IsStr(x) THEN <<>> ELSE FindEmail(x.s)

extraer_numeros(x) ==
  IF ~x.truthy \/ ~IsStr(x) THEN <<>> ELSE FindNumber(x.s)

extraer_montos(x) ==
  IF ~x.truthy \/ ~IsStr(x) THEN <<>>
  ELSE FindDollar(x.s) \o FindCurrency(x.s) \o FindSoles(x.s) \o FindPound(x.s)

\* a search that finds every word in every text
WordInAnyText(w, tl) == TRUE

\* re.search(r'\b' + re.escape(w) + r'\b', tl)
WholeWordIn(w, tl) ==
  \E i \in 1..(Len(tl) - Len(w) + 1) :
    /\ tl[i] = w[1]
    /\ StartsWith(tl, i, w)
    /\ IsBoundary(tl, i)
    /\ IsBoundary(tl, i + Len(w))

extraer_palabras_clave(x) ==
  IF ~x.truthy \/ ~IsStr(x) THEN <<>>
  ELSE LET tl == lower(x.s)
       IN SelectSeq(PALABRAS_EN_ORDEN, LAMBDA w : WholeWordIn(w, tl))

\* string.punctuation; "U+0060" stands for the grave accent
Punctuation == {"!", "\"", "#", "$", "%", "&", "'", "(", ")", "*", "+", ",", "-",
                ".", "/", ":", ";", "<", "=", ">", "?", "@", "[", "\\", "]", "^",
                "_", "U+0060", "{", "|", "}", "~"}
\* the characters SPECIAL_CHARS_PATTERN, [^a-záéíóúñü\s], leaves in place
PlainChars == Lower \cup {"á","é","í","ó","ú","ñ","ü"} \cup Space
\* the characters of the ranges of EMOJI_PATTERN; "U+2702" stands for the
\* one character of that code point
EmojiChars == {"U+2702"}
\* the nltk Spanish and English stopword lists, which are data of the nltk
\* package: the entries that words of the modelled texts can meet
Stopwords == { <<"a">>, <<"t","h","e">>, <<"i","s">>, <<"t","o">>, <<"e","l">>,
               <<"l","a">>, <<"e","n">>, <<"u","n">>, <<"y">>, <<"d","e">>,
               <<"y","o","u">>, <<"h","a","v","e">>, <<"h","e","r","e">>,
               <<"n","o","w">>, <<"w","o","n">> }

\* t without the characters of class C
Without(t, C) == SelectSeq(t, LAMBDA c : c \notin C)

\* t with only the characters of class C
Keep(t, C) == SelectSeq(t, LAMBDA c : c \in C)

\* str.split(): the maximal runs of characters other than whitespace
Split(t) ==
  LET starts == {i \in 1..Len(t) : t[i] \notin Space /\ (i = 1 \/ t[i - 1] \in Space)}
      nth(k) == CHOOSE s \in starts : Cardinality({u \in starts : u < s}) = k - 1
  IN [k \in 1..Cardinality(starts) |->
        SubSeq(t, nth(k), RunEndNot(t, nth(k), Space) - 1)]

RECURSIVE Join(_)
\* ' '.join(words)
Join(words) ==
  IF words = <<>> THEN <<>>
  ELSE IF Len(words) = 1 THEN words[1]
  ELSE LET half == Len(words) \div 2
       IN Join(SubSeq(words, 1, half)) \o <<" ">>
            \o Join(SubSeq(words, half + 1, Len(words)))

\* [palabra for palabra in palabras if palabra not in stopwords_set]
DropStopwords(words) == SelectSeq(words, LAMBDA w : w \notin Stopwords)

limpiar_texto(x) ==
  IF ~x.truthy \/ ~IsStr(x) \/ IsBlank(x.s) THEN <<>>
  ELSE LET t1 == Without(lower(x.s), EmojiChars)
           t2 == Without(t1, Punctuation)
           t3 == Keep(t2, PlainChars)
       IN Join(DropStopwords(Split(t3)))

tokenizar(x) ==
  IF ~x.truthy \/ ~IsStr(x) \/ IsBlank(x.s) THEN <<>>
  ELSE Split(Without(x.s, Punctuation))

preprocesar_completo(x) ==
  IF ~x.truthy \/ ~IsStr(x)
  THEN [ texto_limpio |-> <<>>, tokens |-> <<>>, urls |-> <<>>, emails |-> <<>>,
         numeros |-> <<>>, montos |-> <<>>, palabras_clave |-> <<>> ]
  ELSE [ texto_limpio   |-> limpiar_texto(x),
         tokens         |-> tokenizar(x),
         urls           |-> extraer_urls(x),
         emails         |-> extraer_emails(x),
         numeros        |-> extraer_numeros(x),
         montos         |-> extraer_montos(x),
         palabras_clave |-> extraer_palabras_clave(x) ]

URGENCY_WORDS ==
  {
    <<"a","h","o","r","a">>,
    <<"a","p","u","r","a","t","e">>,
    <<"a","s","a","p">>,
    <<"e","s","t","a"," ","n","o","c","h","e">>,
    <<"e","x","p","i","r","a">>,
    <<"e","x","p","i","r","e","s">>,
    <<"h","o","y">>,
    <<"h","u","r","r","y">>,
    <<"i","m","m","e","d","i","a","t","e","l","y">>,
    <<"i","n","m","e","d","i","a","t","a","m","e","n","t","e">>,
    <<"l","i","m","i","t","a","d","o">>,
    <<"l","i","m","i","t","e","d">>,
    <<"n","o","w">>,
    <<"q","u","i","c","k">>,
    <<"r","a","p","i","d","o">>,
    <<"t","o","d","a","y">>,
    <<"t","o","n","i","g","h","t">>,
    <<"u","r","g","e","n","t">>,
    <<"u","r","g","e","n","t","e">>
  }

----------------------------------------------------------------------------
(* Python floats.  Every float the scorer handles is a multiple of 2^-56   *)
(* below 32, so a float is the record [sg, hi, lo] whose value is          *)
(* sg * (hi * 2^30 + lo) * 2^-56, and an addition or a product by an int   *)
(* is the exact result rounded to 53 significant bits, ties to even        *)
(* (IEEE 754 binary64).                                                    *)

Limb == 2^30
Dbl(sg, hi, lo) == [sg |-> sg, hi |-> hi, lo |-> lo]
\* 0.0 and 1.0
FZero == Dbl(1, 0, 0)
FOne == Dbl(1, 2^26, 0)

\* the spacing, in units of 2^-56, of the floats around a magnitude whose
\* high limb is hi: 1 below 2^-3, doubling with each power of two
Ulp(hi) ==
  LET ks == {k \in 0..7 : hi < 2^(23 + k)}
  IN IF ks = {} THEN 2^8 ELSE 2^MinOf(ks)

\* the magnitude (hi, lo) rounded to the nearest float, ties to even
RoundMag(sg, hi, lo) ==
  LET u == Ulp(hi)
      r == lo % u
      base == lo - r
      up == 2 * r > u \/ (2 * r = u /\ (base \div u) % 2 = 1)
      lo2 == IF up THEN base + u ELSE base
  IN IF lo2 = Limb THEN Dbl(sg, hi + 1, 0) ELSE Dbl(sg, hi, lo2)

\* |a| < |b|
MagLt(a, b) == a.hi < b.hi \/ (a.hi = b.hi /\ a.lo < b.lo)
\* a < b
FLt(a, b) ==
  IF a.sg = b.sg THEN (IF a.sg = 1 THEN MagLt(a, b) ELSE MagLt(b, a))
  ELSE a.sg = -1 /\ ~(a.hi = 0 /\ a.lo = 0 /\ b.hi = 0 /\ b.lo = 0)
\* a >= b
FGe(a, b) == ~FLt(a, b)

\* the exact sum of two magnitudes, under the sign sg
MagAdd(sg, a, b) ==
  LET lo == a.lo + b.lo
  IN Dbl(sg, a.hi + b.hi + (lo \div Limb), lo % Limb)
\* the exact difference of two magnitudes, |a| >= |b|, under the sign sg
MagSub(sg, a, b) ==
  IF a.lo >= b.lo THEN Dbl(sg, a.hi - b.hi, a.lo - b.lo)
  ELSE Dbl(sg, a.hi - b.hi - 1, a.lo + Limb - b.lo)

\* the exact magnitude e rounded to a float, a zero result being +0.0
Rounded(e) ==
  LET r == RoundMag(e.sg, e.hi, e.lo)
  IN IF r.hi = 0 /\ r.lo = 0 THEN FZero ELSE r

\* a + b
FAdd(a, b) ==
  IF a.sg = b.sg THEN Rounded(MagAdd(a.sg, a, b))
  ELSE IF MagLt(a, b) THEN Rounded(MagSub(b.sg, b, a))
  ELSE Rounded(MagSub(a.sg, a, b))

\* the exact magnitude of n * w, the low limb multiplied in two halves of
\* 15 bits
MulExact(n, w) ==
  LET half == 2^15
      c0 == n * (w.lo % half)
      c1 == n * (w.lo \div half) + (c0 \div half)
  IN Dbl(1, n * w.hi + (c1 \div half), (c1 % half) * half + (c0 % half))
\* a product that counts the first match only: nothing for two or more
FMulFirstOnly(n, w) == IF n = 1 THEN w ELSE FZero

\* n * w for an int n >= 1 and a float w
FMulInt(n, w) == LET e == MulExact(n, w) IN RoundMag(w.sg, e.hi, e.lo)

\* min(a, b) and max(a, b) of Python: the first argument unless the second
\* is strictly smaller (larger)
PyMin(a, b) == IF FLt(b, a) THEN b ELSE a
PyMax(a, b) == IF FLt(a, b) THEN b ELSE a

----------------------------------------------------------------------------
(* ModeloML/rules_model.py                                                 *)

VARIABLES
  WEIGHTS,                   \* module level dict: weights of the primary rules
  ADDITIONAL_WEIGHTS,        \* module level dict: weights of the additional rules
  THRESHOLDS,                \* module level dict: thresholds of the additional rules
  CLASSIFICATION_THRESHOLD   \* module level float: the smishing threshold

config == <<WEIGHTS, ADDITIONAL_WEIGHTS, THRESHOLDS, CLASSIFICATION_THRESHOLD>>

\* a threshold of 0.5
LowClassificationThreshold == Dbl(1, 2^25, 0)
\* 0.55
InitialClassificationThreshold == Dbl(1, 36909875, 214748368)
\* url 0.35, palabra_clave 0.18, email 0.12, numero 0.08, monto 0.15
InitialWeights ==
  [ url           |-> Dbl(1, 23488102, 429496728),
    palabra_clave |-> Dbl(1, 12079595, 558345748),
    email         |-> Dbl(1, 8053063, 730144440),
    numero        |-> Dbl(1, 5368709, 128849019),
    monto         |-> Dbl(1, 10066329, 644245094) ]
\* 0.15, 0.20, 0.15, 0.12, 0.10, -0.15
InitialAdditionalWeights ==
  [ longitud_sospechosa     |-> Dbl(1, 10066329, 644245094),
    mayusculas_excesivas    |-> Dbl(1, 13421772, 858993460),
    multiples_exclamaciones |-> Dbl(1, 10066329, 644245094),
    urgencia                |-> Dbl(1, 8053063, 730144440),
    combinacion_indicadores |-> Dbl(1, 6710886, 429496730),
    mensaje_muy_corto       |-> Dbl(-1, 10066329, 644245094) ]
\* ratio_mayusculas, 0.15, is kept in hundredths: a ratio u/n of two ints
\* below 3000 exceeds the float 0.15 exactly when 100 * u > 15 * n
InitialThresholds ==
  [ longitud_minima_spam        |-> 120,
    ratio_mayusculas            |-> 15,
    min_exclamaciones           |-> 2,
    longitud_muy_corta          |-> 10,
    min_indicadores_combinacion |-> 3 ]

_detectar_urgencia(t) ==
  LET tl == lower(t)
  IN \E w \in URGENCY_WORDS :
       \E i \in 1..(Len(tl) - Len(w) + 1) : tl[i] = w[1] /\ StartsWith(tl, i, w)

\* the ratio upper_count / len(letters) as the pair of its terms, 0/1 when
\* the text has no letter
_calcular_ratio_mayusculas(t) ==
  LET letters == {k \in 1..Len(t) : t[k] \in Alpha}
      upper_count == Cardinality({k \in letters : t[k] \in Upper})
  IN IF letters = {} THEN [num |-> 0, den |-> 1]
     ELSE [num |-> upper_count, den |-> Cardinality(letters)]

\* what a call returns, or the exception it raises
Returns(v) == [exc |-> "", value |-> v]
Raises(e) == [exc |-> e, value |-> <<>>]

\* what classify computes from the text before it sums the rules
Features(x) ==
  LET t == x.s
      ratio == _calcular_ratio_mayusculas(t)
  IN [ urls           |-> Len(extraer_urls(x)),
       palabras_clave |-> Len(extraer_palabras_clave(x)),
       emails         |-> Len(extraer_emails(x)),
       numeros        |-> Len(extraer_numeros(x)),
       montos         |-> Len(extraer_montos(x)),
       longitud       |-> Len(t),
       mayusculas     |-> 100 * ratio.num > THRESHOLDS.ratio_mayusculas * ratio.den,
       exclamaciones  |-> Cardinality({k \in 1..Len(t) : t[k] = "!"}),
       urgencia       |-> _detectar_urgencia(t) ]

\* the total number of matches over the five primary categories
num_coincidencias(f) == f.urls + f.palabras_clave + f.emails + f.numeros + f.montos

num_indicadores(f) ==
  Cardinality({c \in {"urls", "palabras_clave", "emails", "numeros", "montos"} : f[c] > 0})

\* the rules of classify in the order of the source, from the features f:
\* whether the rule fires, what it adds to the score, the reason it records
Rules(f) ==
  LET n == num_indicadores(f)
  IN << [fires |-> f.urls > 0,
         w |-> FMulInt(f.urls, WEIGHTS.url), tag |-> "url_detectada"],
        [fires |-> f.palabras_clave > 0,
         w |-> FMulInt(f.palabras_clave, WEIGHTS.palabra_clave),
         tag |-> "palabra_clave_sospechosa"],
        [fires |-> f.emails > 0,
         w |-> FMulInt(f.emails, WEIGHTS.email), tag |-> "email_detectado"],
        [fires |-> f.numeros > 0,
         w |-> FMulInt(f.numeros, WEIGHTS.numero), tag |-> "numero_detectado"],
        [fires |-> f.montos > 0,
         w |-> FMulInt(f.montos, WEIGHTS.monto), tag |-> "monto_detectado"],
        [fires |-> f.longitud > THRESHOLDS.longitud_minima_spam,
         w |-> ADDITIONAL_WEIGHTS.longitud_sospechosa, tag |-> "longitud_sospechosa"],
        [fires |-> f.mayusculas,
         w |-> ADDITIONAL_WEIGHTS.mayusculas_excesivas, tag |-> "mayusculas_excesivas"],
        [fires |-> f.exclamaciones >= THRESHOLDS.min_exclamaciones,
         w |-> ADDITIONAL_WEIGHTS.multiples_exclamaciones,
         tag |-> "multiples_exclamaciones"],
        [fires |-> f.urgencia,
         w |-> ADDITIONAL_WEIGHTS.urgencia, tag |-> "urgencia_detectada"],
        [fires |-> n >= THRESHOLDS.min_indicadores_combinacion,
         w |-> ADDITIONAL_WEIGHTS.combinacion_indicadores,
         tag |-> "combinacion_indicadores"],
        [fires |-> f.longitud < THRESHOLDS.longitud_muy_corta /\ n = 0,
         w |-> ADDITIONAL_WEIGHTS.mensaje_muy_corto, tag |-> "mensaje_muy_corto"] >>

RECURSIVE SumWeights(_, _)
\* score = 0.0, then score += w for the first k of the rules that fire
SumWeights(fired, k) ==
  IF k = 0 THEN FZero ELSE FAdd(SumWeights(fired, k - 1), fired[k].w)

\* the rules applied with each reason put in front of the list
ApplyRulesPrepending(rules) ==
  LET fired == SelectSeq(rules, LAMBDA r : r.fires)
  IN [reasons |-> [k \in 1..Len(fired) |-> fired[Len(fired) + 1 - k].tag],
      score |-> SumWeights(fired, Len(fired))]

\* the score and the reasons the rules leave: each rule that fires adds its
\* weight to the score and appends its reason
ApplyRules(rules) ==
  LET fired == SelectSeq(rules, LAMBDA r : r.fires)
  IN [reasons |-> [k \in 1..Len(fired) |-> fired[k].tag],
      score |-> SumWeights(fired, Len(fired))]

\* score = max(0.0, min(score, 1.0))
Clamp(score) == PyMax(FZero, PyMin(score, FOne))

\* the label when the threshold is exclusive
LabelAboveThreshold(score) ==
  IF FLt(CLASSIFICATION_THRESHOLD, score) THEN "smishing" ELSE "ham"

Label(score) == IF FGe(score, CLASSIFICATION_THRESHOLD) THEN "smishing" ELSE "ham"

FixedHam == Returns([label |-> "ham", score |-> FZero, reasons |-> <<>>])

\* classify without the guard on whitespace-only text
classify_sin_guardia(x) ==
  IF ~x.truthy THEN FixedHam
  ELSE IF ~IsStr(x) THEN Raises("AttributeError")
  ELSE LET r == ApplyRules(Rules(Features(x)))
           score == Clamp(r.score)
       IN Returns([reasons |-> r.reasons, score |-> score, label |-> Label(score)])

classify(x) ==
  IF ~x.truthy THEN FixedHam
  ELSE IF ~IsStr(x) THEN Raises("AttributeError")
  ELSE IF IsBlank(x.s) THEN FixedHam
  ELSE LET r == ApplyRules(Rules(Features(x)))
           score == Clamp(r.score)
       IN Returns([reasons |-> r.reasons, score |-> score, label |-> Label(score)])

----------------------------------------------------------------------------
(* utils/url_check.py                                                      *)

HttpPrefix == <<"h","t","t","p",":","/","/">>
HttpsPrefix == <<"h","t","t","p","s",":","/","/">>

\* the index of the first character of class C at or after i, Len(t) + 1 if none
FirstOf(t, i, C) == RunEndNot(t, i, C)

\* the last index of character c in t, 0 if none
LastIndexOf(t, c) ==
  LET at == {k \in 1..Len(t) : t[k] = c} IN IF at = {} THEN 0 ELSE MaxOf(at)

\* urllib.parse.urlparse(url).netloc for a url that starts with http:// or
\* https://: tabs and line ends are dropped, the scheme is split off, and the
\* network location runs from after "//" to the first of "/", "?", "#".  An
\* unmatched bracket in it raises ValueError
UrlNetloc(url) ==
  LET u == Without(url, {"\t", "\r", "\n"})
      start == (IF StartsWith(u, 1, HttpsPrefix) THEN 8 ELSE 7) + 1
      netloc == SubSeq(u, start, FirstOf(u, start, {"/", "?", "#"}) - 1)
      chars == {netloc[k] : k \in 1..Len(netloc)}
  IN IF ("[" \in chars) # ("]" \in chars) THEN Raises("ValueError")
     ELSE Returns(netloc)

\* a host cut down to its last two labels
UrlBaseDomain(netloc) ==
  LET dot == LastIndexOf(netloc, ".")
      before == LastIndexOf(SubSeq(netloc, 1, dot - 1), ".")
  IN lower(SubSeq(netloc, before + 1, Len(netloc)))

\* ParseResult.hostname: the network location after its last "@" and before
\* its first ":", in lowercase; None (the empty value here) when that is empty
UrlHostname(netloc) ==
  LET hostinfo == SubSeq(netloc, LastIndexOf(netloc, "@") + 1, Len(netloc))
      host == SubSeq(hostinfo, 1, FirstOf(hostinfo, 1, {":"}) - 1)
  IN lower(host)

extraer_dominio(x) ==
  IF ~x.truthy THEN Returns(<<>>)
  ELSE IF ~IsStr(x) THEN Raises("AttributeError")
  ELSE LET url == IF StartsWith(x.s, 1, HttpPrefix) \/ StartsWith(x.s, 1, HttpsPrefix)
                  THEN x.s ELSE HttpPrefix \o x.s
           parsed == UrlNetloc(url)
       IN IF parsed.exc # "" THEN Returns(<<>>)
          ELSE LET h == UrlHostname(parsed.value)
                   hostname == IF h # <<>> THEN h ELSE parsed.value
               IN IF hostname = <<>> THEN Returns(<<>>)
                  ELSE IF StartsWith(hostname, 1, <<"w","w","w",".">>)
                  THEN Returns(SubSeq(hostname, 5, Len(hostname)))
                  ELSE Returns(hostname)


\* the trusted domains
DOMINIOS_CONFIABLES ==
  { <<"a","c",".","u","k">>,
    <<"a","d","o","b","e",".","c","o","m">>,
    <<"a","k","a","m","a","i",".","c","o","m">>,
    <<"a","l","i","b","a","b","a",".","c","o","m">>,
    <<"a","l","i","e","x","p","r","e","s","s",".","c","o","m">>,
    <<"a","m","a","z","o","n",".","c","o","m">>,
    <<"a","p","p","l","e",".","c","o","m">>,
    <<"b","a","n","k","o","f","a","m","e","r","i","c","a",".","c","o","m">>,
    <<"b","a","r","c","l","a","y","s",".","c","o","m">>,
    <<"b","b","c",".","c","o","m">>,
    <<"b","b","v","a",".","p","e">>,
    <<"b","c","p",".","c","o","m",".","p","e">>,
    <<"b","e","s","t","b","u","y",".","c","o","m">>,
    <<"b","l","o","o","m","b","e","r","g",".","c","o","m">>,
    <<"c","h","a","s","e",".","c","o","m">>,
    <<"c","i","t","i","b","a","n","k",".","c","o","m">>,
    <<"c","l","o","u","d","f","l","a","r","e",".","c","o","m">>,
    <<"c","n","n",".","c","o","m">>,
    <<"d","i","s","c","o","r","d",".","c","o","m">>,
    <<"d","r","o","p","b","o","x",".","c","o","m">>,
    <<"e","b","a","y",".","c","o","m">>,
    <<"e","d","u">>,
    <<"e","d","u",".","p","e">>,
    <<"e","t","s","y",".","c","o","m">>,
    <<"e","u","r","o","p","a",".","e","u">>,
    <<"f","a","c","e","b","o","o","k",".","c","o","m">>,
    <<"f","o","r","b","e","s",".","c","o","m">>,
    <<"g","i","t","h","u","b",".","c","o","m">>,
    <<"g","i","t","l","a","b",".","c","o","m">>,
    <<"g","m","a","i","l",".","c","o","m">>,
    <<"g","o","b",".","p","e">>,
    <<"g","o","o","g","l","e",".","c","o","m">>,
    <<"g","o","v">>,
    <<"g","o","v",".","u","k">>,
    <<"h","s","b","c",".","c","o","m">>,
    <<"i","b","m",".","c","o","m">>,
    <<"i","e","e","e",".","o","r","g">>,
    <<"i","e","t","f",".","o","r","g">>,
    <<"i","n","s","t","a","g","r","a","m",".","c","o","m">>,
    <<"i","n","t","e","l",".","c","o","m">>,
    <<"i","n","t","e","r","b","a","n","k",".","p","e">>,
    <<"l","i","n","k","e","d","i","n",".","c","o","m">>,
    <<"m","a","s","t","e","r","c","a","r","d",".","c","o","m">>,
    <<"m","e","d","i","u","m",".","c","o","m">>,
    <<"m","e","r","c","a","d","o","l","i","b","r","e",".","c","o","m">>,
    <<"m","i","c","r","o","s","o","f","t",".","c","o","m">>,
    <<"m","i","t",".","e","d","u">>,
    <<"m","o","z","i","l","l","a",".","o","r","g">>,
    <<"n","e","t","f","l","i","x",".","c","o","m">>,
    <<"n","p","r",".","o","r","g">>,
    <<"n","y","t","i","m","e","s",".","c","o","m">>,
    <<"o","r","a","c","l","e",".","c","o","m">>,
    <<"p","a","y","p","a","l",".","c","o","m">>,
    <<"p","i","n","t","e","r","e","s","t",".","c","o","m">>,
    <<"r","e","d","d","i","t",".","c","o","m">>,
    <<"r","e","u","t","e","r","s",".","c","o","m">>,
    <<"s","a","l","e","s","f","o","r","c","e",".","c","o","m">>,
    <<"s","a","n","t","a","n","d","e","r",".","c","o","m">>,
    <<"s","c","o","t","i","a","b","a","n","k",".","c","o","m",".","p","e">>,
    <<"s","h","o","p","i","f","y",".","c","o","m">>,
    <<"s","l","a","c","k",".","c","o","m">>,
    <<"s","n","a","p","c","h","a","t",".","c","o","m">>,
    <<"s","p","o","t","i","f","y",".","c","o","m">>,
    <<"s","t","a","c","k","o","v","e","r","f","l","o","w",".","c","o","m">>,
    <<"s","t","a","n","f","o","r","d",".","e","d","u">>,
    <<"t","a","r","g","e","t",".","c","o","m">>,
    <<"t","e","l","e","g","r","a","m",".","o","r","g">>,
    <<"t","h","e","g","u","a","r","d","i","a","n",".","c","o","m">>,
    <<"t","i","k","t","o","k",".","c","o","m">>,
    <<"t","u","m","b","l","r",".","c","o","m">>,
    <<"t","w","i","t","c","h",".","t","v">>,
    <<"t","w","i","t","t","e","r",".","c","o","m">>,
    <<"u","n",".","o","r","g">>,
    <<"u","n","e","s","c","o",".","o","r","g">>,
    <<"v","i","m","e","o",".","c","o","m">>,
    <<"v","i","s","a",".","c","o","m">>,
    <<"w","3",".","o","r","g">>,
    <<"w","a","l","m","a","r","t",".","c","o","m">>,
    <<"w","a","s","h","i","n","g","t","o","n","p","o","s","t",".","c","o","m">>,
    <<"w","e","l","l","s","f","a","r","g","o",".","c","o","m">>,
    <<"w","h","a","t","s","a","p","p",".","c","o","m">>,
    <<"w","h","o",".","i","n","t">>,
    <<"w","i","k","i","m","e","d","i","a",".","o","r","g">>,
    <<"w","i","k","i","p","e","d","i","a",".","o","r","g">>,
    <<"w","o","r","d","p","r","e","s","s",".","c","o","m">>,
    <<"w","s","j",".","c","o","m">>,
    <<"y","o","u","t","u","b","e",".","c","o","m">>,
    <<"z","o","o","m",".","u","s">> }

\* the URL shortening services
ACORTADORES_URL ==
  { <<"1","u","r","l",".","c","o","m">>,
    <<"a","d","f",".","l","y">>,
    <<"b","c",".","v","c">>,
    <<"b","i","t",".","l","y">>,
    <<"b","l",".","i","n","k">>,
    <<"b","u","f","f",".","l","y">>,
    <<"b","u","z","u","r","l",".","c","o","m">>,
    <<"c","l","c","k",".","r","u">>,
    <<"c","u","t","t",".","u","s">>,
    <<"f","i","l","o","o","p","s",".","i","n","f","o">>,
    <<"g","o","o",".","g","l">>,
    <<"g","o","o",".","s","u">>,
    <<"h","y","p","e","r","u","r","l",".","c","o">>,
    <<"i","s",".","g","d">>,
    <<"i","t","y",".","i","m">>,
    <<"j",".","m","p">>,
    <<"l","i","n","k",".","z","i","p">>,
    <<"l","n","k","d",".","i","n">>,
    <<"m","c","a","f",".","e","e">>,
    <<"o","w",".","l","y">>,
    <<"p","o",".","s","t">>,
    <<"p","r","e","t","t","y","l","i","n","k","p","r","o",".","c","o","m">>,
    <<"q",".","g","s">>,
    <<"q","r",".","n","e","t">>,
    <<"r","b",".","g","y">>,
    <<"r","e","b","r","a","n","d",".","l","y">>,
    <<"s","2","r",".","c","o">>,
    <<"s","c","r","n","c","h",".","m","e">>,
    <<"s","h","o","r","t",".","l","i","n","k">>,
    <<"s","h","o","r","t","e",".","s","t">>,
    <<"s","h","o","r","t","u","r","l",".","a","t">>,
    <<"s","o","o",".","g","d">>,
    <<"t",".","c","o">>,
    <<"t","i","n","y",".","c","c">>,
    <<"t","i","n","y",".","o","n","e">>,
    <<"t","i","n","y","c","c",".","c","o","m">>,
    <<"t","i","n","y","u","r","l",".","c","o","m">>,
    <<"t","r",".","i","m">>,
    <<"t","w","e","e","z",".","m","e">>,
    <<"t","w","i","t","t","h","i","s",".","c","o","m">>,
    <<"u",".","b","b">>,
    <<"u",".","t","o">>,
    <<"u","r","l","z","s",".","c","o","m">>,
    <<"v",".","g","d">>,
    <<"v","z","t","u","r","l",".","c","o","m">>,
    <<"x",".","c","o">>,
    <<"y","o","u","r","l","s",".","o","r","g">> }

\* IP_PATTERN matches t from index i: four runs of one to three digits, the
\* first three each followed by ".", between two word boundaries
IpAt(t, i) ==
  LET e1 == RunEnd(t, i, Digit)
      e2 == RunEnd(t, e1 + 1, Digit)
      e3 == RunEnd(t, e2 + 1, Digit)
      e4 == RunEnd(t, e3 + 1, Digit)
      run(a, b) == b - a >= 1 /\ b - a <= 3
  IN /\ At(t, i - 1) \notin WordChar
     /\ run(i, e1) /\ At(t, e1) = "."
     /\ run(e1 + 1, e2) /\ At(t, e2) = "."
     /\ run(e2 + 1, e3) /\ At(t, e3) = "."
     /\ run(e3 + 1, e4) /\ At(t, e4) \notin WordChar

\* IP_PATTERN.search(url) finds a match
IpSearch(t) == \E i \in 1..Len(t) : IpAt(t, i)

\* str.strip()
strip(t) ==
  LET ink == {k \in 1..Len(t) : t[k] \notin Space}
  IN IF ink = {} THEN <<>> ELSE SubSeq(t, MinOf(ink), MaxOf(ink))

\* one label of a host name in URL_PATTERN: letters, digits and hyphens, at
\* most 63 of them, a letter or a digit first and last
UrlLabel(t) ==
  /\ Len(t) >= 1 /\ Len(t) <= 63
  /\ \A k \in 1..Len(t) : t[k] \in AsciiAlpha \cup Digit \cup {"-"}
  /\ t[1] # "-" /\ t[Len(t)] # "-"

\* labels joined by ".": every stretch between two dots is a label
UrlLabels(t) ==
  LET dots == {0, Len(t) + 1} \cup {k \in 1..Len(t) : t[k] = "."}
  IN \A a \in dots : \A b \in dots :
       (a < b /\ \A k \in (a + 1)..(b - 1) : t[k] # ".") => UrlLabel(SubSeq(t, a + 1, b - 1))

\* URL_PATTERN.match(t) for a t that str.strip() has left without a line
\* end: http:// or https:// or www. , then labels, then nothing or "/" and
\* characters that are no whitespace, up to the end of t
UrlPatternMatch(t) ==
  LET from == IF StartsWith(t, 1, HttpsPrefix) THEN 9
              ELSE IF StartsWith(t, 1, HttpPrefix) THEN 8
              ELSE IF StartsWith(t, 1, <<"w","w","w",".">>) THEN 5 ELSE 0
      slash == FirstOf(t, from, {"/"})
  IN /\ from > 0
     /\ UrlLabels(SubSeq(t, from, slash - 1))
     /\ \A k \in slash..Len(t) : t[k] \notin Space

validar_url(x) ==
  IF ~x.truthy \/ ~IsStr(x) THEN Returns(FALSE)
  ELSE LET url == strip(x.s)
       IN IF url = <<>> THEN Returns(FALSE) ELSE Returns(UrlPatternMatch(url))

\* es_url_acortada(url) when its call of extraer_dominio(url) gives dom
es_url_acortada_with(x, dom) ==
  IF ~x.truthy THEN Returns(FALSE)
  ELSE IF dom.exc # "" THEN dom
  ELSE Returns(dom.value \in ACORTADORES_URL)

es_url_acortada(x) == es_url_acortada_with(x, extraer_dominio(x))

\* '.'.join(dominio.split('.')[-2:]): the domain from after its last dot
\* but one
DominioBase(dominio) ==
  LET dot == LastIndexOf(dominio, ".")
      before == LastIndexOf(SubSeq(dominio, 1, dot - 1), ".")
  IN SubSeq(dominio, before + 1, Len(dominio))

\* a domain that is trusted only when it is itself on the list
EsConfiableExacto(dominio) == dominio \in DOMINIOS_CONFIABLES

\* the domain is on the list of trusted domains, itself or by its last two
\* labels
EsConfiable(dominio) ==
  \/ (LastIndexOf(dominio, ".") > 0 /\ DominioBase(dominio) \in DOMINIOS_CONFIABLES)
  \/ dominio \in DOMINIOS_CONFIABLES

\* es_url_sospechosa that takes a URL without a domain for harmless
es_url_sospechosa_confiada(x, dom) ==
  IF ~x.truthy THEN Returns(FALSE)
  ELSE LET acortada == es_url_acortada_with(x, dom)
       IN IF acortada.exc # "" THEN acortada
          ELSE IF acortada.value THEN Returns(TRUE)
          ELSE IF IpSearch(x.s) THEN Returns(TRUE)
          ELSE IF dom.value = <<>> THEN Returns(FALSE)
          ELSE IF EsConfiable(dom.value) THEN Returns(FALSE)
          ELSE Returns(TRUE)

\* es_url_sospechosa(url) when its calls of extraer_dominio(url) give dom
es_url_sospechosa_with(x, dom) ==
  IF ~x.truthy THEN Returns(FALSE)
  ELSE LET acortada == es_url_acortada_with(x, dom)
       IN IF acortada.exc # "" THEN acortada
          ELSE IF acortada.value THEN Returns(TRUE)
          ELSE IF IpSearch(x.s) THEN Returns(TRUE)
          ELSE IF dom.value = <<>> THEN Returns(TRUE)
          ELSE IF EsConfiable(dom.value) THEN Returns(FALSE)
          \* with or without a suspicious pattern in the domain
          ELSE Returns(TRUE)

es_url_sospechosa(x) == es_url_sospechosa_with(x, extraer_dominio(x))

\* 0.4, 0.3, 0.1 and 0.2: what analizar_url_completo adds to the risk score
RiesgoAcortada == Dbl(1, 26843545, 644245096)
RiesgoIp == Dbl(1, 20132659, 214748364)
\* a suspicious URL weighed as a subdomain depth is
RiesgoSospechosaBajo == Dbl(1, 13421772, 858993460)
RiesgoSospechosa == Dbl(1, 20132659, 214748364)
RiesgoLongitud == Dbl(1, 6710886, 429496730)
RiesgoSubdominios == Dbl(1, 13421772, 858993460)

\* the number of labels of a domain, one more than its dots
NumEtiquetas(dominio) == Cardinality({k \in 1..Len(dominio) : dominio[k] = "."}) + 1

\* dominio.count('.')
NumSubdominios(dominio) == Cardinality({k \in 1..Len(dominio) : dominio[k] = "."})

SinRiesgo ==
  [es_sospechosa |-> FALSE, es_acortada |-> FALSE, dominio |-> <<>>,
   score_riesgo |-> FZero]

\* an analysis that counts a shortener as suspicious once more
analizar_url_completo_doble(x, dom) ==
  IF ~x.truthy THEN Returns(SinRiesgo)
  ELSE IF dom.exc # "" THEN dom
  ELSE LET dominio == dom.value
           es_acortada == es_url_acortada_with(x, dom).value
           es_sospechosa == es_url_sospechosa_with(x, dom).value
           riesgos ==
             << [fires |-> es_acortada, w |-> RiesgoAcortada],
                [fires |-> IpSearch(x.s), w |-> RiesgoIp],
                [fires |-> es_sospechosa, w |-> RiesgoSospechosa],
                [fires |-> dominio # <<>> /\ (Len(dominio) < 5 \/ Len(dominio) > 50),
                 w |-> RiesgoLongitud],
                [fires |-> dominio # <<>> /\ NumSubdominios(dominio) > 3,
                 w |-> RiesgoSubdominios] >>
           fired == SelectSeq(riesgos, LAMBDA r : r.fires)
           score_riesgo == SumWeights(fired, Len(fired))
       IN Returns([es_sospechosa |-> es_sospechosa, es_acortada |-> es_acortada,
                   dominio |-> dominio, score_riesgo |-> PyMin(FOne, score_riesgo)])

\* analizar_url_completo(url) when its calls of extraer_dominio(url) give dom
analizar_url_completo_with(x, dom) ==
  IF ~x.truthy THEN Returns(SinRiesgo)
  ELSE IF dom.exc # "" THEN dom
  ELSE LET dominio == dom.value
           es_acortada == es_url_acortada_with(x, dom).value
           es_sospechosa == es_url_sospechosa_with(x, dom).value
           riesgos ==
             << [fires |-> es_acortada, w |-> RiesgoAcortada],
                [fires |-> IpSearch(x.s), w |-> RiesgoIp],
                [fires |-> es_sospechosa /\ ~es_acortada, w |-> RiesgoSospechosa],
                [fires |-> dominio # <<>> /\ (Len(dominio) < 5 \/ Len(dominio) > 50),
                 w |-> RiesgoLongitud],
                [fires |-> dominio # <<>> /\ NumSubdominios(dominio) > 3,
                 w |-> RiesgoSubdominios] >>
           fired == SelectSeq(riesgos, LAMBDA r : r.fires)
           score_riesgo == SumWeights(fired, Len(fired))
       IN Returns([es_sospechosa |-> es_sospechosa, es_acortada |-> es_acortada,
                   dominio |-> dominio, score_riesgo |-> PyMin(FOne, score_riesgo)])

analizar_url_completo(x) == analizar_url_completo_with(x, extraer_dominio(x))
----------------------------------------------------------------------------
(* The callers.  A call is made on the value arg; op names the function    *)
(* called last ("none" before the first call) and ret holds what it        *)
(* returned or raised.  mem is an earlier classify call an observer has    *)
(* kept, to compare a later call with.  The rest of the process, which the *)
(* text functions and extraer_dominio do not touch: the threads that run   *)
(* classify, the caches of functools.lru_cache, the pipeline of infer_ml   *)
(* with its artifact file, and the dataset file.                           *)

VARIABLES arg, op, ret, mem, ntok

VARIABLES
  thr,                       \* the classify call each thread is in
  cache,                     \* the lru_cache of each memoized function
  PIPELINE,                  \* infer_ml._PIPELINE
  artifact,                  \* what the artifact file of each path holds
  dataset                    \* data/dataset.csv: its lines, or Missing

world == <<thr, cache, PIPELINE, artifact, dataset>>

vars == <<WEIGHTS, ADDITIONAL_WEIGHTS, THRESHOLDS, CLASSIFICATION_THRESHOLD,
          arg, op, ret, mem, ntok, thr, cache, PIPELINE, artifact, dataset>>

\* the bounds of the inputs: tokens per generated text, tokens appended to a
\* message in a sequence of classify calls, tokens per generated URL
MaxTokens == 3
MaxSeqTokens == 2
MaxUrlTokens == 3
\* the threads that classify at the same time
MaxThreads == 2
\* the entries a cache holds (512, 512 and 1024 in the source), few enough
\* for a handful of calls to overflow it
MaxCacheEntries == 2
\* the lines of a dataset file
MaxLines == 2

\* URGENT! You have won $5000. Click here: http://bit.ly/claim-prize
MsgPremio ==
  <<"U","R","G","E","N","T","!"," ","Y","o","u"," ","h","a","v","e"," ","w","o","n"," ","$","5","0","0","0","."," ","C","l","i","c","k"," ","h","e","r","e",":"," ","h","t","t","p",":","/","/","b","i","t",".","l","y","/","c","l","a","i","m","-","p","r","i","z","e">>

\* Visit http://ex.com
MsgVisit ==
  <<"V","i","s","i","t"," ","h","t","t","p",":","/","/","e","x",".","c","o","m">>

\* Visit http://www.ex.com or www.ex.org
MsgVisitWww ==
  <<"V","i","s","i","t"," ","h","t","t","p",":","/","/","w","w","w",".","e","x",".","c","o","m"," ","o","r"," ","w","w","w",".","e","x",".","o","r","g">>

\* Ok
MsgOk ==
  <<"O","k">>

\* Hola, como estas? Nos vemos luego
MsgHola ==
  <<"H","o","l","a",","," ","c","o","m","o"," ","e","s","t","a","s","?"," ","N","o","s"," ","v","e","m","o","s"," ","l","u","e","g","o">>

\* Estimado cliente le recordamos que su recibo del mes se encuentra disponible en la oficina mas cercana a su domicilio gracias
MsgLargo ==
  <<"E","s","t","i","m","a","d","o"," ","c","l","i","e","n","t","e"," ","l","e"," ","r","e","c","o","r","d","a","m","o","s"," ","q","u","e"," ","s","u"," ","r","e","c","i","b","o"," ","d","e","l"," ","m","e","s"," ","s","e"," ","e","n","c","u","e","n","t","r","a"," ","d","i","s","p","o","n","i","b","l","e"," ","e","n"," ","l","a"," ","o","f","i","c","i","n","a"," ","m","a","s"," ","c","e","r","c","a","n","a"," ","a"," ","s","u"," ","d","o","m","i","c","i","l","i","o"," ","g","r","a","c","i","a","s">>

\* Mira EX.COM
MsgTie ==
  <<"M","i","r","a"," ","E","X",".","C","O","M">>

\* win a@b.c|d $5
MsgCasi ==
  <<"w","i","n"," ","a","@","b",".","c","|","d"," ","$","5">>

\* https://subdomain.example.com/path
UrlSubdomain ==
  <<"h","t","t","p","s",":","/","/","s","u","b","d","o","m","a","i","n",".","e","x","a","m","p","l","e",".","c","o","m","/","p","a","t","h">>

\* https://www.google.com/search
UrlGoogle ==
  <<"h","t","t","p","s",":","/","/","w","w","w",".","g","o","o","g","l","e",".","c","o","m","/","s","e","a","r","c","h">>

\* www.facebook.com
UrlFacebook ==
  <<"w","w","w",".","f","a","c","e","b","o","o","k",".","c","o","m">>

\* http://bit.ly/abc
UrlBitly ==
  <<"h","t","t","p",":","/","/","b","i","t",".","l","y","/","a","b","c">>
Tokens ==
  { <<"h","t","t","p",":","/","/">>,
    <<"w","w","w",".">>,
    <<"e","x",".","c","o","m"," ">>,
    <<"w","i","n"," ">>,
    <<"N","O","W","!">>,
    <<"$","5"," ">>,
    <<"a","@","b",".","c","o"," ">>,
    <<" ">> }

SeqTokens ==
  { <<"h","t","t","p",":","/","/","e","x",".","c","o","m"," ">>,
    <<"w","i","n"," ">>,
    <<"f","r","e","e"," ">>,
    <<"a","@","b",".","c","|","d"," ">>,
    <<"1","2","3","4"," ">>,
    <<"$","5"," ">> }

UrlTokens ==
  { <<"h","t","t","p",":","/","/">>,
    <<"h","t","t","p","s",":","/","/">>,
    <<"w","w","w",".">>,
    <<"e","x">>,
    <<".","c","o","m">>,
    <<"E","X">>,
    <<"s","u","b",".">>,
    <<"/","p">>,
    <<":","8","0">>,
    <<"u","@">>,
    <<"U","@">>,
    <<"[">> }

RECURSIVE TokenStrings(_, _)
\* the concatenations of at most n tokens of the set toks
TokenStrings(toks, n) ==
  IF n = 0 THEN {<<>>}
  ELSE LET S == TokenStrings(toks, n - 1)
       IN S \cup {s \o k : s \in S, k \in toks}

FixedMessages == {MsgPremio, MsgVisit, MsgVisitWww, MsgOk, MsgHola, MsgLargo,
                  MsgTie, MsgCasi, <<" ", "\n", "\t">>}
\* the values the text functions are called on: None, objects that are not
\* str (a falsy one such as 0, a truthy one such as 123) and texts
TextInputs ==
  {PyNone, PyOther(FALSE), PyOther(TRUE)}
    \cup {PyStr(s) : s \in FixedMessages \cup TokenStrings(Tokens, MaxTokens)}
\* the messages a sequence of classify calls starts from
SeqBases == {PyStr(<<>>)} \cup {PyStr(s \o <<" ">>) : s \in {MsgOk, MsgVisit, MsgTie}}
\* the URL strings the URL functions are called on
UrlInputs ==
  {PyStr(s) : s \in {UrlSubdomain, UrlGoogle, UrlFacebook, UrlBitly}
                      \cup TokenStrings(UrlTokens, MaxUrlTokens)}

NoMem ==
  [set |-> FALSE, arg |-> PyNone, ret |-> Returns(<<>>), ntok |-> 0, others |-> FALSE]

InitConfig ==
  /\ WEIGHTS = InitialWeights
  /\ ADDITIONAL_WEIGHTS = InitialAdditionalWeights
  /\ THRESHOLDS = InitialThresholds
  /\ CLASSIFICATION_THRESHOLD = InitialClassificationThreshold

Threads == 1..MaxThreads
\* a thread outside classify
Idle == [pc |-> "idle", text |-> PyNone, locals |-> <<>>, ret |-> Returns(<<>>)]
\* no file
Missing == [exists |-> FALSE, lines |-> <<>>]
NoCaches ==
  [validar_url |-> <<>>, extraer_dominio |-> <<>>, analizar_url_completo |-> <<>>,
   evicted |-> {}]

InitThreads == thr = [t \in Threads |-> Idle]
InitCaches == cache = NoCaches
\* _PATH without SMS_ML_PATH in the environment
DefaultPath ==
  <<"b", "a", "c", "k", "e", "n", "d", "/", "M", "o", "d", "e", "l", "o", "M",
  "L", "/", "a", "r", "t", "i", "f", "a", "c", "t", "s", "/", "s", "m", "s",
  "_", "p", "i", "p", "e", "l", "i", "n", "e", ".", "j", "o", "b", "l", "i",
  "b">>
OtherPath ==
  <<"o", "t", "h", "e", "r", ".", "j", "o", "b", "l", "i", "b">>
Paths == {DefaultPath, OtherPath}
NoPipeline == [loaded |-> FALSE, from |-> <<>>, decides |-> FALSE]
NoFiles == [p \in Paths |-> "absent"]
InitPipeline == PIPELINE = NoPipeline /\ artifact = NoFiles
InitDataset == dataset = Missing

InitCaller(inputs) ==
  /\ arg \in inputs
  /\ op = "none"
  /\ ret = Returns(<<>>)
  /\ mem = NoMem
  /\ ntok = 0

InitCall(inputs) ==
  /\ InitCaller(inputs)
  /\ InitThreads /\ InitCaches /\ InitPipeline /\ InitDataset

\* a call that leaves a trace in the configuration: the URL weight is spent
CallSpendingWeight(f, x, r) ==
  /\ arg' = x
  /\ op' = f
  /\ ret' = r
  /\ WEIGHTS' = [WEIGHTS EXCEPT !.url = FZero]
  /\ UNCHANGED <<ADDITIONAL_WEIGHTS, THRESHOLDS, CLASSIFICATION_THRESHOLD>>
  /\ UNCHANGED world

\* a call of the function named f on x that returns (or raises) r; none of
\* the functions writes the module level configuration
Call(f, x, r) ==
  /\ arg' = x
  /\ op' = f
  /\ ret' = r
  /\ UNCHANGED <<WEIGHTS, ADDITIONAL_WEIGHTS, THRESHOLDS, CLASSIFICATION_THRESHOLD>>
  /\ UNCHANGED world

Classify(x) == Call("classify", x, classify(x))
ExtraerUrls(x) == Call("extraer_urls", x, Returns(extraer_urls(x)))
ExtraerEmails(x) == Call("extraer_emails", x, Returns(extraer_emails(x)))
ExtraerNumeros(x) == Call("extraer_numeros", x, Returns(extraer_numeros(x)))
ExtraerMontos(x) == Call("extraer_montos", x, Returns(extraer_montos(x)))
ExtraerPalabrasClave(x) ==
  Call("extraer_palabras_clave", x, Returns(extraer_palabras_clave(x)))
PreprocesarCompleto(x) ==
  Call("preprocesar_completo", x, Returns(preprocesar_completo(x)))
ExtraerDominio(x) == Call("extraer_dominio", x, extraer_dominio(x))

(* Spec: one call of a text function on each input.                        *)
Init == InitConfig /\ InitCall(TextInputs)
\* the first call, made by a caller that keeps nothing
Once(A) == op = "none" /\ A /\ UNCHANGED <<mem, ntok>>
Next ==
  \/ Once(Classify(arg))
  \/ Once(ExtraerUrls(arg))
  \/ Once(ExtraerEmails(arg))
  \/ Once(ExtraerNumeros(arg))
  \/ Once(ExtraerMontos(arg))
  \/ Once(ExtraerPalabrasClave(arg))
  \/ Once(PreprocesarCompleto(arg))
Spec == Init /\ [][Next]_vars

(* SpecSeq: a sequence of classify calls, each on the message of the call  *)
(* before, on that message with one more token, or on the message kept in  *)
(* mem; between two calls the observer may keep the last call in mem.      *)
InitSeq == InitConfig /\ InitCall(SeqBases)

\* the observer notes that a text other than the one it kept is classified
Observe(x) ==
  mem' = IF mem.set /\ x # mem.arg THEN [mem EXCEPT !.others = TRUE] ELSE mem

ClassifySame == Classify(arg) /\ Observe(arg) /\ UNCHANGED ntok
ClassifyLonger ==
  /\ IsStr(arg)
  /\ ntok < MaxSeqTokens
  /\ \E x \in {PyStr(arg.s \o k) : k \in SeqTokens} : Classify(x) /\ Observe(x)
  /\ ntok' = ntok + 1
ClassifyKept ==
  /\ mem.set
  /\ \E x \in {mem.arg} : Classify(x)
  /\ ntok' = mem.ntok
  /\ UNCHANGED mem
Remember ==
  /\ ~mem.set
  /\ op = "classify"
  /\ mem' = [set |-> TRUE, arg |-> arg, ret |-> ret, ntok |-> ntok, others |-> FALSE]
  /\ UNCHANGED <<WEIGHTS, ADDITIONAL_WEIGHTS, THRESHOLDS, CLASSIFICATION_THRESHOLD,
                 arg, op, ret, ntok>>
  /\ UNCHANGED world
NextSeq == ClassifySame \/ ClassifyLonger \/ ClassifyKept \/ Remember
SpecSeq == InitSeq /\ [][NextSeq]_vars

(* SpecUrl: one call of a URL function on each URL string.                 *)
InitUrl == InitConfig /\ InitCall(UrlInputs)
NextUrl == Once(ExtraerDominio(arg))
SpecUrl == InitUrl /\ [][NextUrl]_vars


(* SpecRisk: one call of a function of the URL risk analyzer on each URL    *)
(* string.                                                                *)
\* http://bit.ly/malware
UrlBitlyMalware == <<"h","t","t","p",":","/","/","b","i","t",".","l","y","/","m","a","l","w","a","r","e">>

\* https://www.google.com
UrlGoogleHome == <<"h","t","t","p","s",":","/","/","w","w","w",".","g","o","o","g","l","e",".","c","o","m">>

\* http://fake-bank-secure.com
UrlFakeBank == <<"h","t","t","p",":","/","/","f","a","k","e","-","b","a","n","k","-","s","e","c","u","r","e",".","c","o","m">>

\* http://192.168.1.1/phishing
UrlIp == <<"h","t","t","p",":","/","/","1","9","2",".","1","6","8",".","1",".","1","/","p","h","i","s","h","i","n","g">>

\* the pieces a generated URL is made of; the longest is a label of 46 letters
RiskTokens ==
  { <<"h","t","t","p",":","/","/">>,
    <<"w","w","w",".">>,
    <<"b","i","t",".","l","y">>,
    <<"t",".","c","o">>,
    <<"g","o","o","g","l","e",".","c","o","m">>,
    <<"g","o","v">>,
    <<"a",".","b",".">>,
    <<"a","a","a","a","a","a","a","a","a","a","a","a","a","a","a","a","a","a","a","a","a","a","a","a","a","a","a","a","a","a","a","a","a","a","a","a","a","a","a","a","a","a","a","a","a","a",".">>,
    <<"1",".","2",".","3",".","4">>,
    <<"/">>,
    <<"x">>,
    <<"U","@">> }

RiskInputs ==
  {PyStr(s) : s \in {UrlBitlyMalware, UrlGoogleHome, UrlFakeBank, UrlIp}
                      \cup TokenStrings(RiskTokens, MaxUrlTokens)}

ValidarUrl(x) == Call("validar_url", x, validar_url(x))
EsUrlAcortada(x) == Call("es_url_acortada", x, es_url_acortada(x))
EsUrlSospechosa(x) == Call("es_url_sospechosa", x, es_url_sospechosa(x))
AnalizarUrlCompleto(x) == Call("analizar_url_completo", x, analizar_url_completo(x))

InitRisk == InitConfig /\ InitCall(RiskInputs)
NextRisk ==
  \/ Once(ValidarUrl(arg))
  \/ Once(EsUrlAcortada(arg))
  \/ Once(EsUrlSospechosa(arg))
  \/ Once(AnalizarUrlCompleto(arg))
SpecRisk == InitRisk /\ [][NextRisk]_vars

(* SpecPar: threads that run classify at the same time.  A thread takes a  *)
(* step at a time: the call, the guard on empty text, the extraction of    *)
(* the features, the scoring with the module level configuration, the      *)
(* return.  What a thread holds between two steps is local to it.          *)
ParTexts == {PyStr(s) : s \in {MsgPremio, MsgOk, MsgTie, MsgCasi, <<" ">>}}

\* a step of thread t that takes it to the state now
ThreadStep(t, now) ==
  /\ thr' = [thr EXCEPT ![t] = now]
  /\ UNCHANGED <<WEIGHTS, ADDITIONAL_WEIGHTS, THRESHOLDS, CLASSIFICATION_THRESHOLD>>
  /\ UNCHANGED <<arg, op, ret, mem, ntok, cache, PIPELINE, artifact, dataset>>

ThreadCall(t) ==
  /\ thr[t].pc \in {"idle", "done"}
  /\ \E x \in ParTexts : ThreadStep(t, [Idle EXCEPT !.pc = "guard", !.text = x])

ThreadGuard(t) ==
  /\ thr[t].pc = "guard"
  /\ IF ~thr[t].text.truthy \/ IsBlank(thr[t].text.s)
     THEN ThreadStep(t, [thr[t] EXCEPT !.pc = "done", !.ret = FixedHam])
     ELSE ThreadStep(t, [thr[t] EXCEPT !.pc = "extract"])

\* an extraction whose features land where every thread about to score
\* finds them
ThreadExtractShared(t) ==
  /\ thr[t].pc = "extract"
  /\ \E f \in {Features(thr[t].text)} :
       thr' = [u \in Threads |->
                 IF u = t THEN [thr[t] EXCEPT !.pc = "score", !.locals = f]
                 ELSE IF thr[u].pc = "score" THEN [thr[u] EXCEPT !.locals = f]
                 ELSE thr[u]]
  /\ UNCHANGED <<WEIGHTS, ADDITIONAL_WEIGHTS, THRESHOLDS, CLASSIFICATION_THRESHOLD>>
  /\ UNCHANGED <<arg, op, ret, mem, ntok, cache, PIPELINE, artifact, dataset>>

ThreadExtract(t) ==
  /\ thr[t].pc = "extract"
  /\ \E f \in {Features(thr[t].text)} :
       ThreadStep(t, [thr[t] EXCEPT !.pc = "score", !.locals = f])

ThreadScore(t) ==
  /\ thr[t].pc = "score"
  /\ \E r \in {ApplyRules(Rules(thr[t].locals))} :
       ThreadStep(t, [thr[t] EXCEPT !.pc = "return", !.locals = r])

ThreadReturn(t) ==
  /\ thr[t].pc = "return"
  /\ \E score \in {Clamp(thr[t].locals.score)} :
       ThreadStep(t, [thr[t] EXCEPT
                        !.pc = "done",
                        !.locals = <<>>,
                        !.ret = Returns([reasons |-> thr[t].locals.reasons,
                                         score |-> score,
                                         label |-> Label(score)])])

InitPar == InitConfig /\ InitCall({PyNone})
NextPar ==
  \E t \in Threads :
    \/ ThreadCall(t)
    \/ ThreadGuard(t)
    \/ ThreadExtract(t)
    \/ ThreadScore(t)
    \/ ThreadReturn(t)
SpecPar == InitPar /\ [][NextPar]_vars

(* SpecCache: calls of the memoized functions, in any number and order.    *)
(* functools.lru_cache keeps the results of the latest calls by argument,  *)
(* here from the least to the most recently used; a call whose argument    *)
(* is kept returns the kept result and runs no body.  cache.evicted        *)
(* remembers the arguments a full cache has dropped.                       *)
UrlKeys == {PyStr(<<>>), PyStr(UrlBitlyMalware), PyStr(UrlGoogleHome)}

Entry(k, v) == [key |-> k, value |-> v]
CacheHit(c, k) == \E i \in 1..Len(c) : c[i].key = k
\* a lookup that answers with the entry used least recently
CacheValueOldest(c, k) == c[1].value
CacheValue(c, k) == c[CHOOSE i \in 1..Len(c) : c[i].key = k].value
\* what the call returns: the kept result, or else the result v of the body
CacheResult(c, k, v) == IF CacheHit(c, k) THEN CacheValue(c, k) ELSE v
\* the cache after the call: the entry of k is the most recently used, and
\* the least recently used entry makes room for it
CachePut(c, k, v) ==
  LET all == Append(SelectSeq(c, LAMBDA e : e.key # k), Entry(k, v))
  IN IF Len(all) > MaxCacheEntries THEN Tail(all) ELSE all
\* the keys the call drops
CacheDropped(c, k) ==
  IF ~CacheHit(c, k) /\ Len(c) = MaxCacheEntries THEN {c[1].key} ELSE {}

\* a call f(x) that returns r and leaves the caches as now
CachedCall(f, x, r, now) ==
  /\ arg' = x
  /\ op' = f
  /\ ret' = r
  /\ cache' = now
  /\ UNCHANGED <<WEIGHTS, ADDITIONAL_WEIGHTS, THRESHOLDS, CLASSIFICATION_THRESHOLD>>
  /\ UNCHANGED <<mem, ntok, thr, PIPELINE, artifact, dataset>>

ValidarUrlCached(x) ==
  \E r \in {CacheResult(cache.validar_url, x, validar_url(x))} :
    CachedCall("validar_url", x, r,
               [cache EXCEPT !.validar_url = CachePut(@, x, r),
                             !.evicted = @ \cup CacheDropped(cache.validar_url, x)])

ExtraerDominioCached(x) ==
  \E r \in {CacheResult(cache.extraer_dominio, x, extraer_dominio(x))} :
    CachedCall("extraer_dominio", x, r,
               [cache EXCEPT !.extraer_dominio = CachePut(@, x, r),
                             !.evicted = @ \cup CacheDropped(cache.extraer_dominio, x)])

\* the body of analizar_url_completo calls extraer_dominio(url), itself and
\* through es_url_acortada and es_url_sospechosa, unless url is empty
AnalizarUrlCompletoCached(x) ==
  LET hit == CacheHit(cache.analizar_url_completo, x)
      inner == ~hit /\ x.truthy
  IN \E dom \in {CacheResult(cache.extraer_dominio, x, extraer_dominio(x))} :
     \E r \in {CacheResult(cache.analizar_url_completo, x,
                           analizar_url_completo_with(x, dom))} :
       CachedCall("analizar_url_completo", x, r,
                  [cache EXCEPT
                     !.analizar_url_completo = CachePut(@, x, r),
                     !.extraer_dominio = IF inner THEN CachePut(@, x, dom) ELSE @,
                     !.evicted = @ \cup CacheDropped(cache.analizar_url_completo, x)
                                   \cup (IF inner
                                         THEN CacheDropped(cache.extraer_dominio, x)
                                         ELSE {})])

InitCache == InitConfig /\ InitCall({PyNone})
NextCache ==
  \E x \in UrlKeys :
    \/ ValidarUrlCached(x)
    \/ ExtraerDominioCached(x)
    \/ AnalizarUrlCompletoCached(x)
SpecCache == InitCache /\ [][NextCache]_vars

(* SpecMl: ModeloML/infer_ml.py.  A score is a number of ten-thousandths,  *)
(* as round(score, 4) leaves it.  An artifact file holds a pipeline whose  *)
(* last step has a decision function ("svc", what train_ml.py writes) or    *)
(* has none ("plain"), or the file is "absent".                            *)
NoScore == [none |-> TRUE, v |-> 0]
ScoreIs(v) == [none |-> FALSE, v |-> v]
\* what pipe.decision_function([text])[0] may give
Decisions == {-10, -3, -2, -1, 0, 1, 2, 3, 10}
Labels == {"ham", "smishing"}
MlTexts == {PyStr(MsgPremio), PyStr(MsgOk)}

\* the distance to the hyperplane itself, in ten-thousandths
ScoreRaw(dec) == (IF dec < 0 THEN -dec ELSE dec) * 10000

\* round(1 / (1 + math.exp(-abs(float(dec)))), 4) for a whole dec
ScoreOf(dec) ==
  LET a == IF dec < 0 THEN -dec ELSE dec
      table == <<5000, 7311, 8808, 9526, 9820, 9933, 9975, 9991, 9997, 9999>>
  IN IF a < 10 THEN table[a + 1] ELSE 10000

\* load_pipeline without the test '_PIPELINE is None': the file at the path
\* of the call is loaded whenever it exists
load_pipeline_otra_vez(path) ==
  LET p == IF path.truthy THEN path.s ELSE DefaultPath
  IN IF artifact[p] # "absent"
     THEN [loaded |-> TRUE, from |-> p, decides |-> artifact[p] = "svc"]
     ELSE PIPELINE

\* the value of _PIPELINE after load_pipeline(path); an empty path is _PATH
load_pipeline(path) ==
  LET p == IF path.truthy THEN path.s ELSE DefaultPath
  IN IF ~PIPELINE.loaded /\ artifact[p] # "absent"
     THEN [loaded |-> TRUE, from |-> p, decides |-> artifact[p] = "svc"]
     ELSE PIPELINE

\* a call of a function of infer_ml on x that returns r and leaves pipe in
\* _PIPELINE
MlCall(f, x, r, pipe) ==
  /\ arg' = x
  /\ op' = f
  /\ ret' = r
  /\ PIPELINE' = pipe
  /\ UNCHANGED <<WEIGHTS, ADDITIONAL_WEIGHTS, THRESHOLDS, CLASSIFICATION_THRESHOLD>>
  /\ UNCHANGED <<mem, ntok, thr, cache, artifact, dataset>>

LoadPipeline(path) ==
  \E pipe \in {load_pipeline(path)} : MlCall("load_pipeline", path, Returns(pipe), pipe)

PredictLabelScore(x) ==
  \E pipe \in {load_pipeline(PyNone)} :
    IF ~pipe.loaded THEN MlCall("predict_label_score", x, Returns(PyNone), pipe)
    ELSE \E label \in Labels : \E dec \in Decisions :
           MlCall("predict_label_score", x,
                  Returns([label |-> label,
                           score |-> IF pipe.decides THEN ScoreIs(ScoreOf(dec))
                                     ELSE NoScore]),
                  pipe)

\* train_ml.py, or anyone else, writes an artifact file
WriteArtifact(p, kind) ==
  /\ artifact[p] = "absent"
  /\ artifact' = [artifact EXCEPT ![p] = kind]
  /\ UNCHANGED <<WEIGHTS, ADDITIONAL_WEIGHTS, THRESHOLDS, CLASSIFICATION_THRESHOLD>>
  /\ UNCHANGED <<arg, op, ret, mem, ntok, thr, cache, PIPELINE, dataset>>

InitMl == InitConfig /\ InitCall(MlTexts)
NextMl ==
  \/ \E path \in {PyNone, PyStr(OtherPath)} : LoadPipeline(path)
  \/ \E x \in MlTexts : PredictLabelScore(x)
  \/ \E p \in Paths : \E kind \in {"svc", "plain"} : WriteArtifact(p, kind)
SpecMl == InitMl /\ [][NextMl]_vars

(* SpecApi: POST /classify of api/main.py.  A request body carries a text   *)
(* (a string, null or a value of another JSON type) or lacks the field.     *)
(* The response keeps, beside its status and body, whether classify ran.    *)
min_length == 1
max_length == 1000
MaxApiTokens == 2
Absent == [kind |-> "absent", truthy |-> FALSE, s |-> <<>>]
Rep(c, n) == [i \in 1..n |-> c]
ApiBodies ==
  {Absent, PyNone, PyOther(TRUE), PyOther(FALSE)}
  \cup {PyStr(Rep(c, n)) : c \in {"a", "!", " "},
                           n \in {0, min_length, 3, max_length, max_length + 1}}
  \cup {PyStr(s) : s \in TokenStrings(Tokens, MaxApiTokens)}

\* SMSRequest without its field validator
SMSRequestSinValidador(body) ==
  /\ IsStr(body)
  /\ Len(body.s) >= min_length
  /\ Len(body.s) <= max_length

\* SMSRequest: whether the body validates
SMSRequest(body) ==
  /\ IsStr(body)
  /\ Len(body.s) >= min_length
  /\ Len(body.s) <= max_length
  /\ ~IsBlank(body.s)

\* SMSResponse: whether the fields validate
SMSResponse(label, score) ==
  /\ label \in {"smishing", "ham"}
  /\ FGe(score, FZero)
  /\ FGe(FOne, score)

Response(status, ran, body) == Returns([status |-> status, classified |-> ran, body |-> body])

\* the handler, entered with a validated request
classify_sms(request) ==
  LET texto_procesado == Returns(preprocesar_completo(request))
      resultado == classify(request)
  IN IF texto_procesado.exc # "" \/ resultado.exc # ""
     THEN Response(500, TRUE, <<>>)
     ELSE IF ~SMSResponse(resultado.value.label, resultado.value.score)
     THEN Response(500, TRUE, <<>>)
     ELSE Response(200, TRUE, [label |-> resultado.value.label,
                               score |-> resultado.value.score,
                               text |-> request.s])

\* a client sends a request once the one before is answered
Send(body) ==
  /\ op # "request"
  /\ Call("request", body, Returns(<<>>))
  /\ UNCHANGED <<mem, ntok>>

\* the server validates the request in flight and, if valid, handles it
Post ==
  /\ op = "request"
  /\ IF SMSRequest(arg)
     THEN \E r \in {classify_sms(arg)} : Call("classify_sms", arg, r)
     ELSE Call("classify_sms", arg, Response(422, FALSE, <<>>))
  /\ UNCHANGED <<mem, ntok>>

InitApi == InitConfig /\ InitCall({PyNone})
NextApi ==
  \/ \E body \in ApiBodies : Send(body)
  \/ Post
SpecApi == InitApi /\ [][NextApi]_vars

(* SpecModel: the four public functions of rules_model.py called one after  *)
(* the other, over a dataset file that is missing or holds a few lines.     *)
MODEL_VERSION == <<"2", ".", "0", ".", "0">>
Tab == "\t"
Spam == <<"s", "p", "a", "m">>
Ham == <<"h", "a", "m">>
DatasetLines ==
  { Spam \o <<Tab>> \o MsgPremio,
    Ham \o <<Tab>> \o MsgOk,
    Spam \o <<Tab>> \o MsgOk,
    Ham \o <<Tab>> \o MsgPremio,
    Ham \o <<Tab>>,
    Spam \o <<Tab>> \o MsgOk \o <<Tab>> \o MsgOk,
    MsgCasi }
LineSeqs(n) == UNION {[1..k -> DatasetLines] : k \in 0..n}
Datasets == {Missing} \cup {[exists |-> TRUE, lines |-> ls] : ls \in LineSeqs(MaxLines)}
ModelTexts == {PyStr(MsgPremio), PyStr(MsgOk), PyStr(MsgCasi)}

\* line.strip().split('\t', 1): the parts of a line, one or two
SplitLine(line) ==
  LET t == strip(line)
      tabs == {k \in 1..Len(t) : t[k] = Tab}
  IN IF tabs = {} THEN <<t>>
     ELSE <<SubSeq(t, 1, MinOf(tabs) - 1), SubSeq(t, MinOf(tabs) + 1, Len(t))>>

\* the (label, text) pairs of the lines that are not skipped
Parsed(lines) ==
  LET parts == [k \in 1..Len(lines) |-> SplitLine(lines[k])]
      kept == SelectSeq(parts, LAMBDA ps : Len(ps) = 2)
  IN [k \in 1..Len(kept) |-> [label |-> kept[k][1], text |-> PyStr(kept[k][2])]]

\* the number of items of a sequence whose field f is v
Count(s, f, v) == Cardinality({k \in 1..Len(s) : s[k][f] = v})

get_model_info ==
  [ version |-> MODEL_VERSION,
    reglas_activas |-> <<"deteccion_urls", "deteccion_palabras_clave",
                         "deteccion_emails", "deteccion_numeros", "deteccion_montos",
                         "analisis_longitud", "analisis_mayusculas",
                         "deteccion_exclamaciones", "deteccion_urgencia",
                         "combinacion_indicadores", "penalizacion_mensajes_cortos">>,
    umbrales |-> [ clasificacion |-> CLASSIFICATION_THRESHOLD,
                   longitud_minima_spam |-> THRESHOLDS.longitud_minima_spam,
                   ratio_mayusculas |-> THRESHOLDS.ratio_mayusculas,
                   min_exclamaciones |-> THRESHOLDS.min_exclamaciones,
                   longitud_muy_corta |-> THRESHOLDS.longitud_muy_corta,
                   min_indicadores_combinacion |->
                     THRESHOLDS.min_indicadores_combinacion ],
    pesos |-> WEIGHTS,
    pesos_adicionales |-> ADDITIONAL_WEIGHTS ]

\* what the loop of analizar_dataset finds in one line
Patrones(e) ==
  [ spam |-> e.label = Spam,
    urls |-> extraer_urls(e.text) # <<>>,
    palabras_clave |-> extraer_palabras_clave(e.text) # <<>>,
    emails |-> extraer_emails(e.text) # <<>>,
    numeros |-> extraer_numeros(e.text) # <<>>,
    montos |-> extraer_montos(e.text) # <<>> ]

\* analizar_dataset once the lines are analysed: found holds Patrones of each
analizar_dataset_with(exists, found) ==
  IF ~exists
  THEN [error |-> TRUE, total_mensajes |-> 0, total_spam |-> 0, total_ham |-> 0]
  ELSE [ error |-> FALSE,
         total_mensajes |-> Len(found),
         total_spam |-> Count(found, "spam", TRUE),
         total_ham |-> Count(found, "spam", FALSE),
         patrones_urls |-> Count(found, "urls", TRUE),
         patrones_palabras_clave |-> Count(found, "palabras_clave", TRUE),
         patrones_emails |-> Count(found, "emails", TRUE),
         patrones_numeros |-> Count(found, "numeros", TRUE),
         patrones_montos |-> Count(found, "montos", TRUE) ]

PatronesDe(lines) == [k \in 1..Len(Parsed(lines)) |-> Patrones(Parsed(lines)[k])]
analizar_dataset == analizar_dataset_with(dataset.exists, PatronesDe(dataset.lines))

\* a quotient taken whatever the divisor
RatioSinGuarda(n, d) == [num |-> n, den |-> d]

\* a quotient n / d kept as the pair it is the float of; 0.0 when d is 0
Ratio(n, d) == IF d > 0 THEN [num |-> n, den |-> d] ELSE [num |-> 0, den |-> 1]

\* what the loop of evaluar_modelo counts for one line
Acierto(e) ==
  LET true_is_spam == e.label = Spam
      predicted_is_spam == classify(e.text).value.label = "smishing"
  IN [as |-> IF predicted_is_spam
             THEN (IF true_is_spam THEN "true_positive" ELSE "false_positive")
             ELSE (IF true_is_spam THEN "false_negative" ELSE "true_negative")]

\* 2 * (precision * recall) / (precision + recall) if (precision + recall) > 0
\* else 0.0, from the terms of the two quotients
F1(precision, recall) ==
  Ratio(2 * precision.num * recall.num,
        precision.num * recall.den + recall.num * precision.den)

\* the metrics from the four counters
Metricas(total, true_positives, true_negatives, false_positives, false_negatives) ==
  [ error |-> FALSE,
    accuracy |-> Ratio(true_positives + true_negatives, total),
    precision |-> Ratio(true_positives, true_positives + false_positives),
    recall |-> Ratio(true_positives, true_positives + false_negatives),
    f1_score |-> F1(Ratio(true_positives, true_positives + false_positives),
                    Ratio(true_positives, true_positives + false_negatives)),
    total_evaluados |-> total,
    true_positives |-> true_positives,
    true_negatives |-> true_negatives,
    false_positives |-> false_positives,
    false_negatives |-> false_negatives ]

\* evaluar_modelo once the lines are classified: counted holds Acierto of each
evaluar_modelo_with(exists, counted) ==
  IF ~exists
  THEN [ error |-> TRUE, accuracy |-> Ratio(0, 0), precision |-> Ratio(0, 0),
         recall |-> Ratio(0, 0), f1_score |-> Ratio(0, 0), total_evaluados |-> 0 ]
  ELSE Metricas(Len(counted),
                Count(counted, "as", "true_positive"),
                Count(counted, "as", "true_negative"),
                Count(counted, "as", "false_positive"),
                Count(counted, "as", "false_negative"))

AciertosDe(lines) == [k \in 1..Len(Parsed(lines)) |-> Acierto(Parsed(lines)[k])]
evaluar_modelo == evaluar_modelo_with(dataset.exists, AciertosDe(dataset.lines))

GetModelInfo == Call("get_model_info", PyNone, Returns(get_model_info))
AnalizarDataset ==
  \E found \in {PatronesDe(dataset.lines)} :
    Call("analizar_dataset", PyNone, Returns(analizar_dataset_with(dataset.exists, found)))
EvaluarModelo ==
  \E counted \in {AciertosDe(dataset.lines)} :
    Call("evaluar_modelo", PyNone, Returns(evaluar_modelo_with(dataset.exists, counted)))

InitModel ==
  /\ InitConfig
  /\ InitCaller({PyNone})
  /\ InitThreads /\ InitCaches /\ InitPipeline
  /\ dataset \in Datasets
NextModel ==
  \/ \E x \in ModelTexts : Classify(x) /\ UNCHANGED <<mem, ntok>>
  \/ GetModelInfo /\ UNCHANGED <<mem, ntok>>
  \/ AnalizarDataset /\ UNCHANGED <<mem, ntok>>
  \/ EvaluarModelo /\ UNCHANGED <<mem, ntok>>
SpecModel == InitModel /\ [][NextModel]_vars

(* SpecRules: classify called once on a message built to fire the          *)
(* additional rules in every combination: a run of one letter, short or     *)
(* around 120 characters with its ending, in upper or lower case, then an   *)
(* ending with or without exclamation marks, an urgency word, a keyword or  *)
(* an amount.                                                               *)
RuleEndings ==
  { <<>>, <<"!">>, <<"!", "!">>,
    <<" ", "h", "u", "r", "r", "y">>,
    <<"!", " ", "h", "u", "r", "r", "y">>,
    <<"!", "!", " ", "h", "u", "r", "r", "y">>,
    <<"!", "!", " ", "t", "o", "d", "a", "y">>,
    <<"!", "!", " ", "w", "i", "n">>,
    <<"!", "!", " ", "$", "5">> }
RuleInputs ==
  {PyStr(Rep(c, n) \o e) : c \in {"X", "x"}, n \in {1, 2, 112, 113, 119}, e \in RuleEndings}

InitRules == InitConfig /\ InitCall(RuleInputs)
NextRules == Once(Classify(arg))
SpecRules == InitRules /\ [][NextRules]_vars

(* SpecAlias: callers that keep what a call returned and write into it.    *)
(* A dict is an object: lru_cache keeps and hands out the dict the body    *)
(* returned, and get_model_info puts the module level dicts WEIGHTS and    *)
(* ADDITIONAL_WEIGHTS themselves into its result, so a write through the   *)
(* returned value is a write into the cache entry or into the dict of the   *)
(* module.  'umbrales' is a dict built by the call.                        *)
AliasTexts == {PyStr(MsgVisit), PyStr(MsgOk), PyStr(MsgCasi)}
Edited(result) == [result EXCEPT !.score_riesgo = FOne, !.es_sospechosa = ~@]

\* the caller writes into the dict analizar_url_completo has just returned:
\* the entry of the cache is that dict
EditUrlResult ==
  /\ op = "analizar_url_completo"
  /\ ret.value.score_riesgo # FOne
  /\ \E now \in {Returns(Edited(ret.value))} :
       /\ ret' = now
       /\ cache' = [cache EXCEPT !.analizar_url_completo =
                      [k \in 1..Len(@) |-> IF @[k].key = arg THEN Entry(arg, now) ELSE @[k]]]
  /\ op' = "edit"
  /\ UNCHANGED <<WEIGHTS, ADDITIONAL_WEIGHTS, THRESHOLDS, CLASSIFICATION_THRESHOLD>>
  /\ UNCHANGED <<arg, mem, ntok, thr, PIPELINE, artifact, dataset>>

\* the caller writes into an entry of the dict get_model_info has just
\* returned: result['pesos']['url'] = 0.0,
\* result['pesos_adicionales']['urgencia'] = 0.0 or
\* result['umbrales']['clasificacion'] = 0.0
EditModelInfo(entry) ==
  /\ op = "get_model_info"
  /\ WEIGHTS' = IF entry = "pesos" THEN [WEIGHTS EXCEPT !.url = FZero] ELSE WEIGHTS
  /\ ADDITIONAL_WEIGHTS' = IF entry = "pesos_adicionales"
                           THEN [ADDITIONAL_WEIGHTS EXCEPT !.urgencia = FZero]
                           ELSE ADDITIONAL_WEIGHTS
  /\ ret' = Returns([ret.value EXCEPT
                       !.pesos = WEIGHTS',
                       !.pesos_adicionales = ADDITIONAL_WEIGHTS',
                       !.umbrales = IF entry = "umbrales"
                                    THEN [@ EXCEPT !.clasificacion = FZero] ELSE @])
  /\ op' = "edit"
  /\ UNCHANGED <<THRESHOLDS, CLASSIFICATION_THRESHOLD>>
  /\ UNCHANGED <<arg, mem, ntok, thr, cache, PIPELINE, artifact, dataset>>

InitAlias == InitConfig /\ InitCall({PyNone})
NextAlias ==
  \/ \E x \in UrlKeys : AnalizarUrlCompletoCached(x)
  \/ EditUrlResult
  \/ GetModelInfo /\ UNCHANGED <<mem, ntok>>
  \/ \E entry \in {"pesos", "pesos_adicionales", "umbrales"} : EditModelInfo(entry)
  \/ \E x \in AliasTexts : Classify(x) /\ UNCHANGED <<mem, ntok>>
SpecAlias == InitAlias /\ [][NextAlias]_vars
----------------------------------------------------------------------------
(* Properties of classify.                                                 *)

Score == ret.value.score
ClassifyReturned == op = "classify" /\ ret.exc = ""
Half == Dbl(1, 2^25, 0)
InSeq(e, s) == \E k \in 1..Len(s) : s[k] = e

\* C1: for every text, classify returns a score in [0.0, 1.0] and a label in
\* {smishing, ham}, and the label is smishing exactly when the score is at
\* least 0.55; a score of exactly 0.55 is labelled smishing.
C1_ScoreInRangeLabelByThreshold ==
  ClassifyReturned =>
    /\ FGe(Score, FZero) /\ FGe(FOne, Score)
    /\ ret.value.label \in {"smishing", "ham"}
    /\ ret.value.label = "smishing" <=> ~FLt(Score, InitialClassificationThreshold)

\* a text whose score is exactly 0.55 has been classified smishing
C1_Witness ==
  /\ ClassifyReturned
  /\ arg = PyStr(MsgTie)
  /\ Score = InitialClassificationThreshold
  /\ ret.value.label = "smishing"

\* C2: classify on the empty string or on a whitespace-only string returns
\* exactly label ham, score 0.0 and no reasons: no rule is evaluated, not even
\* the short message penalty.
C2_BlankIsFixedHam ==
  (op = "classify" /\ IsStr(arg) /\ \A k \in 1..Len(arg.s) : arg.s[k] \in Space) =>
    ret = [exc |-> "", value |-> [label |-> "ham", score |-> FZero, reasons |-> <<>>]]

\* a whitespace-only text of several characters has been classified
C2_Witness ==
  /\ op = "classify"
  /\ arg = PyStr(<<" ", "\n", "\t">>)
  /\ ret.exc = ""

\* C3: the message "URGENT! You have won $5000. Click here:
\* http://bit.ly/claim-prize" is classified smishing with a score of at least
\* 0.5 and url_detectada among its reasons.
C3_PrizeMessageIsSmishing ==
  (op = "classify" /\ arg = PyStr(MsgPremio)) =>
    /\ ret.exc = ""
    /\ ret.value.label = "smishing"
    /\ ~FLt(Score, Half)
    /\ InSeq("url_detectada", ret.value.reasons)

\* the prize message has been classified, its keywords, amount and urgency
\* word found next to the URL
C3_Witness ==
  /\ ClassifyReturned
  /\ arg = PyStr(MsgPremio)
  /\ InSeq("palabra_clave_sospechosa", ret.value.reasons)
  /\ InSeq("monto_detectado", ret.value.reasons)
  /\ InSeq("urgencia_detectada", ret.value.reasons)

Primary == {"urls", "palabras_clave", "emails", "numeros", "montos"}

\* g has one more match than f in exactly one primary category, the other
\* counts and the rules on length, capitals, exclamation marks and urgency
\* being as in f
OneMoreMatch(f, g) ==
  /\ \E c \in Primary :
       /\ g[c] = f[c] + 1
       /\ \A d \in Primary \ {c} : g[d] = f[d]
  /\ (g.longitud > THRESHOLDS.longitud_minima_spam)
       = (f.longitud > THRESHOLDS.longitud_minima_spam)
  /\ g.mayusculas = f.mayusculas
  /\ (g.exclamaciones >= THRESHOLDS.min_exclamaciones)
       = (f.exclamaciones >= THRESHOLDS.min_exclamaciones)
  /\ g.urgencia = f.urgencia

KeptAndClassified ==
  /\ mem.set /\ mem.ret.exc = ""
  /\ ClassifyReturned
  /\ IsStr(mem.arg) /\ IsStr(arg)

\* C4: with all other features equal, one more match of one primary category
\* (urls, keywords, emails, numbers, amounts) never lowers the score of
\* classify, the step from no match to one match included, where the short
\* message penalty may disappear.
C4_OneMoreMatchNeverLowersScore ==
  (KeptAndClassified /\ OneMoreMatch(Features(mem.arg), Features(arg))) =>
    ~FLt(Score, mem.ret.value.score)

\* a short text that paid the short message penalty, then the same text with
\* its first match, which pays no penalty and scores strictly more
C4_Witness ==
  /\ KeptAndClassified
  /\ OneMoreMatch(Features(mem.arg), Features(arg))
  /\ num_indicadores(Features(mem.arg)) = 0
  /\ InSeq("mensaje_muy_corto", mem.ret.value.reasons)
  /\ ~InSeq("mensaje_muy_corto", ret.value.reasons)
  /\ FLt(mem.ret.value.score, Score)

\* C5: classify is deterministic and keeps no hidden state: in a sequence of
\* classify calls, two calls on the same text return the same label, score
\* and reasons, whatever texts were classified in between.
C5_SameTextSameResult ==
  (mem.set /\ op = "classify" /\ arg = mem.arg) => ret = mem.ret

\* a text classified again after another text was classified in between
C5_Witness ==
  /\ mem.set /\ op = "classify" /\ arg = mem.arg
  /\ mem.others
  /\ ret.exc = "" /\ ret.value.reasons # <<>>

----------------------------------------------------------------------------
(* Properties of the extractors.                                           *)

Extractors == {"extraer_urls", "extraer_emails", "extraer_numeros",
               "extraer_montos", "extraer_palabras_clave"}
WhitespaceOnly(t) == \A k \in 1..Len(t) : t[k] \in Space
\* None, a value that is not a str, the empty string, a whitespace-only string
Malformed(x) == ~IsStr(x) \/ WhitespaceOnly(x.s)
HamZero == [exc |-> "", value |-> [label |-> "ham", score |-> FZero, reasons |-> <<>>]]

\* C6: for malformed or absent input (None, a value that is not a string,
\* the empty string, whitespace only) classify does not raise and returns the
\* fixed result: label ham, score 0.0, no reasons.  The code raises
\* AttributeError on a truthy value that is not a str, so this fails.
C6_MalformedInputIsFixedHam ==
  (op = "classify" /\ Malformed(arg)) => ret = HamZero

\* C7: each of the five extractors returns an empty list and does not raise
\* on None, a value that is not a str, the empty string or a whitespace-only
\* string, and preprocesar_completo returns an empty value in every field.
C7_ExtractorsEmptyOnMalformed ==
  Malformed(arg) =>
    /\ op \in Extractors => ret = [exc |-> "", value |-> <<>>]
    /\ op = "preprocesar_completo" =>
         /\ ret.exc = ""
         /\ DOMAIN ret.value = {"texto_limpio", "tokens", "urls", "emails",
                                "numeros", "montos", "palabras_clave"}
         /\ \A fld \in DOMAIN ret.value : ret.value[fld] = <<>>

\* the whole pipeline has run on a whitespace-only string of several
\* characters, which passes the guard on falsy values
C7_Witness ==
  /\ op = "preprocesar_completo"
  /\ IsStr(arg) /\ Len(arg.s) >= 2 /\ WhitespaceOnly(arg.s)
  /\ ret.exc = ""

\* C8: extraer_urls lists the http(s):// matches, then the www. matches, then
\* bare domains, and reports no bare domain that is a substring of an
\* http(s):// or www. match; for "Visit http://ex.com" the result is that URL
\* once and nothing else.
C8_BareDomainInsideUrlIsSkipped ==
  (op = "extraer_urls" /\ IsStr(arg)) =>
    LET first == FindHttp(arg.s) \o FindWww(arg.s)
        r == ret.value
    IN /\ ret.exc = ""
       /\ Len(r) >= Len(first)
       /\ SubSeq(r, 1, Len(first)) = first
       /\ \A k \in (Len(first) + 1)..Len(r) :
            /\ InSeq(r[k], FindDomain(arg.s))
            /\ \A j \in 1..Len(first) : ~IsSubstring(r[k], first[j])
       /\ arg = PyStr(MsgVisit) => r = <<SubSeq(MsgVisit, 7, Len(MsgVisit))>>

\* the text of the example: the bare domain pattern matches inside the URL
\* and the result holds the URL alone
C8_Witness ==
  /\ op = "extraer_urls"
  /\ arg = PyStr(MsgVisit)
  /\ FindDomain(arg.s) # <<>>
  /\ Len(ret.value) = 1

----------------------------------------------------------------------------
(* Properties of extraer_dominio.                                          *)

HostChars == Lower \cup Digit \cup {".", "-"}
Www == <<"w","w","w",".">>
SchemeMark == <<":","/","/">>
DomainOf(t) == [exc |-> "", value |-> t]
SubdomainHost == SubSeq(UrlSubdomain, 9, 29)
BaseHost == SubSeq(UrlSubdomain, 19, 29)

\* C9: extraer_dominio prepends http:// when the string has no scheme,
\* strips one leading www., keeps every other subdomain
\* (https://subdomain.example.com/path gives subdomain.example.com), returns
\* the host in lowercase, and returns the empty string for unparseable
\* input.  The code returns the raw network location when it holds no host,
\* so this fails.
C9_LowercaseHostOrEmpty ==
  (op = "extraer_dominio" /\ IsStr(arg)) =>
    /\ ret.exc = ""
    /\ \A k \in 1..Len(ret.value) : ret.value[k] \in HostChars
    /\ ~IsSubstring(SchemeMark, arg.s) => ret = extraer_dominio(PyStr(HttpPrefix \o arg.s))
    /\ (/\ Len(arg.s) >= 5
        /\ StartsWith(arg.s, 1, Www)
        /\ \A k \in 5..Len(arg.s) : arg.s[k] \in HostChars) =>
         ret.value = SubSeq(arg.s, 5, Len(arg.s))
    /\ arg = PyStr(UrlSubdomain) => ret.value = SubdomainHost

----------------------------------------------------------------------------
(* Properties of the URL risk analyzer.                                    *)

\* the domain extraer_dominio gives for the URL of the call
Dominio == extraer_dominio(arg).value
Dots(d) == Cardinality({k \in 1..Len(d) : d[k] = "."})
\* d or the last two labels of d are on the list of trusted domains
Trusted(d) ==
  \/ d \in DOMINIOS_CONFIABLES
  \/ \E k \in 1..Len(d) :
       /\ k = 1 \/ d[k - 1] = "."
       /\ Dots(SubSeq(d, k, Len(d))) = 1
       /\ SubSeq(d, k, Len(d)) \in DOMINIOS_CONFIABLES
TrustedUrl == ~IpSearch(arg.s) /\ Trusted(Dominio)
\* 0.3 and the float next above it, 0.30000000000000004
ThreeTenths == Dbl(1, 20132659, 214748364)
ThreeTenthsUp == Dbl(1, 20132659, 214748368)

\* C11: es_url_sospechosa is conservative: for every non-empty URL it
\* returns true unless the URL is not a shortener, contains no IPv4 literal
\* and its domain or the domain's last two labels are on the trusted list;
\* it returns false for https://www.google.com and true for a shortener, an
\* IP URL and the unknown domain of http://fake-bank-secure.com.
C11_SuspiciousUnlessTrusted ==
  (op = "es_url_sospechosa" /\ arg.s # <<>>) =>
    /\ ret.exc = ""
    /\ ret.value = ~(Dominio \notin ACORTADORES_URL /\ TrustedUrl)
    /\ arg = PyStr(UrlGoogleHome) => ret.value = FALSE
    /\ arg \in {PyStr(UrlBitlyMalware), PyStr(UrlIp), PyStr(UrlFakeBank)} =>
         ret.value = TRUE

\* a URL has been found harmless by the last two labels of its domain
C11_Witness ==
  /\ op = "es_url_sospechosa"
  /\ ret = Returns(FALSE)
  /\ Dominio \notin DOMINIOS_CONFIABLES

\* C12: for every URL whose domain is a known shortener,
\* analizar_url_completo reports es_sospechosa and es_acortada true, the
\* shortener as dominio and a score_riesgo above 0.5.  The code scores
\* http://bit.ly/malware 0.4, so this fails.
C12_ShortenerRiskAboveHalf ==
  (op = "analizar_url_completo" /\ Dominio \in ACORTADORES_URL) =>
    /\ ret.exc = ""
    /\ ret.value.es_sospechosa
    /\ ret.value.es_acortada
    /\ ret.value.dominio = Dominio
    /\ FLt(Half, ret.value.score_riesgo)

\* C13 as stated: for every URL without an IPv4 literal whose domain is
\* trusted, analizar_url_completo reports es_sospechosa and es_acortada
\* false and a score_riesgo below 0.3, whatever the length and the depth of
\* the domain.
C13_TrustedRiskBelowThreeTenths ==
  (op = "analizar_url_completo" /\ TrustedUrl) =>
    /\ ~ret.value.es_sospechosa
    /\ ~ret.value.es_acortada
    /\ FLt(ret.value.score_riesgo, ThreeTenths)

\* C13 amended: for every URL without an IPv4 literal whose domain is
\* trusted, analizar_url_completo reports es_sospechosa and es_acortada
\* false, and a score_riesgo below 0.3 unless the domain is longer than 50
\* characters and holds more than three dots, when the score is
\* 0.30000000000000004.
C13_TrustedRiskByLengthAndDepth ==
  (op = "analizar_url_completo" /\ TrustedUrl) =>
    /\ ~ret.value.es_sospechosa
    /\ ~ret.value.es_acortada
    /\ IF Len(Dominio) > 50 /\ Dots(Dominio) > 3
       THEN ret.value.score_riesgo = ThreeTenthsUp
       ELSE FLt(ret.value.score_riesgo, ThreeTenths)

\* a long and deep trusted domain has been scored 0.30000000000000004
C13_Witness ==
  /\ op = "analizar_url_completo"
  /\ TrustedUrl
  /\ Len(Dominio) > 50 /\ Dots(Dominio) > 3
  /\ ret.value.score_riesgo = ThreeTenthsUp

\* C14 as stated: for every URL string whose extracted domain is empty,
\* es_url_sospechosa returns true and analizar_url_completo reports
\* es_sospechosa true.
C14_EmptyDomainIsSuspicious ==
  (IsStr(arg) /\ Dominio = <<>>) =>
    /\ op = "es_url_sospechosa" => ret = Returns(TRUE)
    /\ op = "analizar_url_completo" => (ret.exc = "" /\ ret.value.es_sospechosa)

\* C14 amended: for every non-empty URL string whose extracted domain is
\* empty, es_url_sospechosa returns true and analizar_url_completo reports
\* es_sospechosa true; for the empty string both report false.
C14_NonEmptyUrlEmptyDomainIsSuspicious ==
  (IsStr(arg) /\ Dominio = <<>>) =>
    /\ op = "es_url_sospechosa" => ret = Returns(arg.s # <<>>)
    /\ op = "analizar_url_completo" =>
         (ret.exc = "" /\ ret.value.es_sospechosa = (arg.s # <<>>))

\* a URL that is not empty and has no domain has been found suspicious
C14_Witness ==
  /\ op = "es_url_sospechosa"
  /\ arg.s # <<>>
  /\ Dominio = <<>>
  /\ ret = Returns(TRUE)

----------------------------------------------------------------------------
(* Properties of classify under threads.                                   *)

\* C15: any number of classify calls on different messages may run in
\* parallel threads without coordination: under every interleaving each
\* call completes without error and returns the result it returns when run
\* alone.
C15_ParallelCallsReturnAsAlone ==
  \A t \in Threads :
    thr[t].pc = "done" =>
      /\ thr[t].ret.exc = ""
      /\ thr[t].ret = classify(thr[t].text)

\* a call has returned smishing while another thread was in the middle of a
\* call on another message
C15_Witness ==
  \E t \in Threads : \E u \in Threads :
    /\ thr[t].pc = "done"
    /\ thr[t].ret.value.label = "smishing"
    /\ thr[u].pc \in {"score", "return"}
    /\ thr[u].text # thr[t].text

----------------------------------------------------------------------------
(* Properties of the memoized URL functions.                               *)

\* C16: memoization of validar_url, extraer_dominio and
\* analizar_url_completo is a pure optimization: in every sequence of calls,
\* those that overflow a cache and force an eviction included, each call
\* returns the value the function without a cache returns for that string.
C16_CachedCallReturnsAsUncached ==
  /\ op = "validar_url" => ret = validar_url(arg)
  /\ op = "extraer_dominio" => ret = extraer_dominio(arg)
  /\ op = "analizar_url_completo" => ret = analizar_url_completo(arg)

\* a full cache has dropped a URL, the URL has been analysed again, and the
\* call before that one is still kept
C16_Witness ==
  /\ op = "analizar_url_completo"
  /\ arg \in cache.evicted
  /\ arg.truthy
  /\ Len(cache.analizar_url_completo) = MaxCacheEntries
  /\ Len(cache.extraer_dominio) = MaxCacheEntries

\* C18: a call of predict_label_score with no pipeline loaded and no artifact
\* file at the default path returns None; a call that has a pipeline returns
\* without an exception a pair (label, score) whose score is None or lies
\* in [0.0, 1.0], and it is None when the decision function fails.
C18_PredictLabelScoreContract ==
  [][(\E x \in MlTexts : PredictLabelScore(x)) =>
       /\ (~PIPELINE.loaded /\ artifact[DefaultPath] = "absent") => ret' = Returns(PyNone)
       /\ PIPELINE'.loaded =>
            /\ ret'.exc = ""
            /\ ret'.value # PyNone
            /\ ret'.value.label \in Labels
            /\ \/ ret'.value.score = NoScore
               \/ ~ret'.value.score.none /\ ret'.value.score.v \in 0..10000
            /\ ~PIPELINE'.decides => ret'.value.score = NoScore]_vars

C18_Witness ==
  /\ op = "predict_label_score"
  /\ PIPELINE.loaded
  /\ ~PIPELINE.decides
  /\ ret.value # PyNone
  /\ ret.value.score = NoScore

\* C17: a request whose text is missing, not a string, empty, whitespace-only
\* or longer than 1000 characters is answered 422 and classify has not run;
\* a text of exactly 1 or exactly 1000 characters that is not blank is
\* answered 200 with the text of the request unchanged in the body.
C17_ValidationBeforeClassify ==
  op = "classify_sms" =>
    /\ (~IsStr(arg) \/ Len(arg.s) = 0 \/ IsBlank(arg.s) \/ Len(arg.s) > 1000) =>
         /\ ret.value.status = 422
         /\ ~ret.value.classified
    /\ (IsStr(arg) /\ Len(arg.s) \in {1, 1000} /\ ~IsBlank(arg.s)) =>
         /\ ret.value.status = 200
         /\ ret.value.body.text = arg.s

C17_Witness ==
  /\ op = "classify_sms"
  /\ IsStr(arg)
  /\ Len(arg.s) = 1000
  /\ ret.value.status = 200
  /\ ret.value.body.text = arg.s

\* C19: after any sequence of classify, get_model_info, analizar_dataset and
\* evaluar_modelo calls the weights, the additional weights, the thresholds
\* and the classification threshold hold their initial values.
C19_ConfigurationKeepsInitialValues ==
  /\ WEIGHTS = InitialWeights
  /\ ADDITIONAL_WEIGHTS = InitialAdditionalWeights
  /\ THRESHOLDS = InitialThresholds
  /\ CLASSIFICATION_THRESHOLD = InitialClassificationThreshold

C19_Witness ==
  /\ op = "evaluar_modelo"
  /\ dataset.exists
  /\ ret.value.total_evaluados = MaxLines
  /\ ret.value.true_positives > 0
  /\ WEIGHTS = InitialWeights

\* the terms of the score of the text of arg, each one 0.0 when its rule
\* does not apply, in the order in which they are added
ScoreTerms ==
  LET t == arg.s
      urls == Len(extraer_urls(arg))
      keywords == Len(extraer_palabras_clave(arg))
      emails == Len(extraer_emails(arg))
      numbers == Len(extraer_numeros(arg))
      amounts == Len(extraer_montos(arg))
      categories == Cardinality({n \in {"u", "k", "e", "n", "a"} :
                                   \/ n = "u" /\ urls > 0
                                   \/ n = "k" /\ keywords > 0
                                   \/ n = "e" /\ emails > 0
                                   \/ n = "n" /\ numbers > 0
                                   \/ n = "a" /\ amounts > 0})
      ratio == _calcular_ratio_mayusculas(t)
      If(b, w) == IF b THEN w ELSE FZero
  IN << FMulInt(urls, InitialWeights.url),
        FMulInt(keywords, InitialWeights.palabra_clave),
        FMulInt(emails, InitialWeights.email),
        FMulInt(numbers, InitialWeights.numero),
        FMulInt(amounts, InitialWeights.monto),
        If(Len(t) > 120, InitialAdditionalWeights.longitud_sospechosa),
        If(100 * ratio.num > 15 * ratio.den, InitialAdditionalWeights.mayusculas_excesivas),
        If(Cardinality({k \in 1..Len(t) : t[k] = "!"}) >= 2,
           InitialAdditionalWeights.multiples_exclamaciones),
        If(_detectar_urgencia(t), InitialAdditionalWeights.urgencia),
        If(categories >= 3, InitialAdditionalWeights.combinacion_indicadores),
        If(Len(t) < 10 /\ categories = 0, InitialAdditionalWeights.mensaje_muy_corto) >>

RECURSIVE ScoreSum(_, _)
\* the first k terms added from left to right, starting from 0.0
ScoreSum(terms, k) ==
  IF k = 0 THEN FZero
  ELSE CHOOSE r \in {FAdd(s, terms[k]) : s \in {ScoreSum(terms, k - 1)}} : TRUE

\* C20: for every non-blank text the score of classify is the clamp to [0, 1]
\* of the sum of: 0.35, 0.18, 0.12, 0.08 and 0.15 per URL, keyword, email,
\* number and amount; 0.15 for a length above 120; 0.20 for an uppercase ratio
\* above 0.15; 0.15 for two or more '!'; 0.12 for an urgency word; 0.10 when
\* at least 3 of the five primary categories are non-empty, however many
\* matches they hold; -0.15 for a length below 10 with all five categories
\* empty.
C20_ScoreIsClampedSumOfRules ==
  (ClassifyReturned /\ IsStr(arg) /\ ~IsBlank(arg.s)) =>
    \A terms \in {ScoreTerms} :
      \A sum \in {ScoreSum(terms, Len(terms))} : ret.value.score = Clamp(sum)

C20_Witness ==
  /\ ClassifyReturned
  /\ IsStr(arg)
  /\ ~IsBlank(arg.s)
  /\ num_coincidencias(Features(arg)) >= 3
  /\ num_indicadores(Features(arg)) < 3
  /\ FLt(FZero, ret.value.score)
  /\ \A terms \in {ScoreTerms} :
       \A sum \in {ScoreSum(terms, Len(terms))} : ret.value.score = Clamp(sum)

----------------------------------------------------------------------------
(* The reasons of classify                                                 *)

ReasonOrder ==
  << "url_detectada", "palabra_clave_sospechosa", "email_detectado",
     "numero_detectado", "monto_detectado", "longitud_sospechosa",
     "mayusculas_excesivas", "multiples_exclamaciones", "urgencia_detectada",
     "combinacion_indicadores", "mensaje_muy_corto" >>

\* the place of a tag in the fixed order, 0 for a tag that is not in it
ReasonPlace(tag) ==
  LET ks == {k \in 1..Len(ReasonOrder) : ReasonOrder[k] = tag}
  IN IF ks = {} THEN 0 ELSE MinOf(ks)

\* the tags whose rule fires on the text of arg: a rule fires when its term
\* of the score is taken
FiredTags ==
  LET t == arg.s
      urls == extraer_urls(arg) # <<>>
      keywords == extraer_palabras_clave(arg) # <<>>
      emails == extraer_emails(arg) # <<>>
      numbers == extraer_numeros(arg) # <<>>
      amounts == extraer_montos(arg) # <<>>
      categories == Cardinality({c \in {<<1, urls>>, <<2, keywords>>, <<3, emails>>,
                                        <<4, numbers>>, <<5, amounts>>} : c[2]})
      ratio == _calcular_ratio_mayusculas(t)
  IN {tag \in {ReasonOrder[k] : k \in 1..Len(ReasonOrder)} :
        \/ tag = "url_detectada" /\ urls
        \/ tag = "palabra_clave_sospechosa" /\ keywords
        \/ tag = "email_detectado" /\ emails
        \/ tag = "numero_detectado" /\ numbers
        \/ tag = "monto_detectado" /\ amounts
        \/ tag = "longitud_sospechosa" /\ Len(t) > 120
        \/ tag = "mayusculas_excesivas" /\ 100 * ratio.num > 15 * ratio.den
        \/ tag = "multiples_exclamaciones"
             /\ Cardinality({k \in 1..Len(t) : t[k] = "!"}) >= 2
        \/ tag = "urgencia_detectada" /\ _detectar_urgencia(t)
        \/ tag = "combinacion_indicadores" /\ categories >= 3
        \/ tag = "mensaje_muy_corto" /\ Len(t) < 10 /\ categories = 0}

\* C21: the reasons list that classify returns holds each tag at most once
\* and in the fixed order (it is a subsequence of the eleven tags in the
\* order of the rules), and, for a text whose rules are run, it holds a tag
\* exactly when the rule of the tag fired.
C21_ReasonsOncePerFiredRuleInOrder ==
  ClassifyReturned =>
    \A reasons \in {ret.value.reasons} :
      /\ \A i, j \in 1..Len(reasons) :
           i < j => /\ ReasonPlace(reasons[i]) > 0
                    /\ ReasonPlace(reasons[i]) < ReasonPlace(reasons[j])
      /\ (IsStr(arg) /\ ~IsBlank(arg.s)) =>
           {reasons[k] : k \in 1..Len(reasons)} = FiredTags

C21_Witness ==
  /\ ClassifyReturned
  /\ IsStr(arg)
  /\ Len(ret.value.reasons) >= 4
  /\ "combinacion_indicadores" \in {ret.value.reasons[k] : k \in 1..Len(ret.value.reasons)}
  /\ {ret.value.reasons[k] : k \in 1..Len(ret.value.reasons)} = FiredTags

----------------------------------------------------------------------------
(* The composition of score_riesgo                                         *)

AnalyzeReturned == op = "analizar_url_completo" /\ ret.exc = "" /\ arg.truthy

\* the contributions to score_riesgo that come before the subdomain depth,
\* each 0.0 when it is not applied, from the flags of the result
RiskTermsBeforeDepth ==
  LET r == ret.value
      If(b, w) == IF b THEN w ELSE FZero
  IN << If(r.es_acortada, RiesgoAcortada),
        If(IpSearch(arg.s), RiesgoIp),
        If(r.es_sospechosa /\ ~r.es_acortada, RiesgoSospechosa),
        If(r.dominio # <<>> /\ (Len(r.dominio) < 5 \/ Len(r.dominio) > 50),
           RiesgoLongitud) >>

\* score_riesgo is the clamped sum with (added) or without the 0.2 of the
\* subdomain depth
DepthContribution(added) ==
  \A before \in {ScoreSum(RiskTermsBeforeDepth, 4)} :
    \A sum \in {IF added THEN FAdd(before, RiesgoSubdominios) ELSE before} :
      ret.value.score_riesgo = PyMin(FOne, sum)

\* C22 as stated: the 0.2 of the subdomain depth is added exactly when the
\* extracted domain has more than 3 dot-separated labels, so that a.b.c.d
\* receives it.
C22_DepthAddedAboveThreeLabels ==
  (AnalyzeReturned /\ ret.value.dominio # <<>>) =>
    DepthContribution(Dots(ret.value.dominio) + 1 > 3)

\* C22: the 0.2 of the subdomain depth is added exactly when the extracted
\* domain holds more than 3 dots, that is at least five dot-separated
\* labels: a four-label domain such as a.b.c.d does not receive it.
C22_DepthAddedAboveThreeDots ==
  (AnalyzeReturned /\ ret.value.dominio # <<>>) =>
    DepthContribution(Dots(ret.value.dominio) > 3)

C22_Witness ==
  /\ AnalyzeReturned
  /\ Dots(ret.value.dominio) = 4
  /\ DepthContribution(TRUE)
  /\ ~DepthContribution(FALSE)

\* C23: for every URL score_riesgo lies in [0.0, 1.0], and the 0.4 of a
\* shortener and the 0.3 of a suspicious URL are never both applied: a
\* shortened URL gets the 0.4 without the 0.3, a suspicious URL that is not
\* shortened the 0.3 without the 0.4 (beside what the IPv4 literal, the
\* length and the depth of the domain add).
C23_ShortenerAndSuspiciousNeverBoth ==
  (op = "analizar_url_completo" /\ ret.exc = "") =>
    \A r \in {ret.value} :
      /\ FGe(r.score_riesgo, FZero)
      /\ FGe(FOne, r.score_riesgo)
      /\ (r.es_acortada \/ r.es_sospechosa) =>
           \A terms \in {<< IF r.es_acortada THEN RiesgoAcortada ELSE RiesgoSospechosa,
                            IF IpSearch(arg.s) THEN RiesgoIp ELSE FZero,
                            IF r.dominio # <<>> /\ (Len(r.dominio) < 5 \/ Len(r.dominio) > 50)
                            THEN RiesgoLongitud ELSE FZero,
                            IF r.dominio # <<>> /\ Dots(r.dominio) > 3
                            THEN RiesgoSubdominios ELSE FZero >>} :
             \A sum \in {ScoreSum(terms, 4)} : r.score_riesgo = PyMin(FOne, sum)

C23_Witness ==
  /\ op = "analizar_url_completo"
  /\ ret.exc = ""
  /\ arg.truthy
  /\ ret.value.es_acortada
  /\ ret.value.es_sospechosa
  /\ IpSearch(arg.s)
  /\ ret.value.score_riesgo = FAdd(RiesgoAcortada, RiesgoIp)

----------------------------------------------------------------------------
(* The metrics of evaluar_modelo                                           *)

\* a quotient that is 0.0, and one that lies in [0.0, 1.0]
IsZero(q) == q.den > 0 /\ q.num = 0
InUnit(q) == q.den > 0 /\ q.num >= 0 /\ q.num <= q.den

\* a line holds a label and a text: a tab with something other than
\* whitespace before it and after it
HasLabelAndText(line) ==
  \E k \in 1..Len(line) :
    /\ line[k] = Tab
    /\ \E i \in 1..(k - 1) : line[i] \notin Space
    /\ \E j \in (k + 1)..Len(line) : line[j] \notin Space

\* C24: evaluar_modelo returns without an exception; with the dataset file
\* missing it returns an error record whose four metrics are 0.0;
\* otherwise it evaluates exactly the lines that hold a label and a text
\* separated by a tab and skips the others, accuracy, precision, recall and
\* f1_score lie in [0.0, 1.0], and each is 0.0 when its denominator is zero.
C24_MetricsInRangeAndGuarded ==
  op = "evaluar_modelo" =>
    /\ ret.exc = ""
    /\ \A m \in {ret.value} :
         /\ IsZero(m.accuracy) \/ ~m.error
         /\ IsZero(m.precision) \/ ~m.error
         /\ IsZero(m.recall) \/ ~m.error
         /\ IsZero(m.f1_score) \/ ~m.error
         /\ m.error = ~dataset.exists
         /\ ~m.error =>
              /\ m.total_evaluados =
                   Cardinality({k \in 1..Len(dataset.lines) :
                                  HasLabelAndText(dataset.lines[k])})
              /\ m.total_evaluados = m.true_positives + m.true_negatives
                                     + m.false_positives + m.false_negatives
              /\ InUnit(m.accuracy) /\ InUnit(m.precision)
              /\ InUnit(m.recall) /\ InUnit(m.f1_score)
              /\ m.total_evaluados = 0 => IsZero(m.accuracy)
              /\ m.true_positives + m.false_positives = 0 => IsZero(m.precision)
              /\ m.true_positives + m.false_negatives = 0 => IsZero(m.recall)
              /\ (IsZero(m.precision) /\ IsZero(m.recall)) => IsZero(m.f1_score)

\* a file of lines of which one is skipped and none is a true positive
C24_Witness ==
  /\ op = "evaluar_modelo"
  /\ dataset.exists
  /\ Len(dataset.lines) = MaxLines
  /\ ret.value.total_evaluados = MaxLines - 1
  /\ ret.value.true_positives = 0
  /\ ret.value.false_positives > 0
  /\ IsZero(ret.value.recall)
  /\ IsZero(ret.value.f1_score)

----------------------------------------------------------------------------
(* Messages without a primary indicator                                    *)

NoPrimaryIndicator ==
  /\ extraer_urls(arg) = <<>>
  /\ extraer_palabras_clave(arg) = <<>>
  /\ extraer_emails(arg) = <<>>
  /\ extraer_numeros(arg) = <<>>
  /\ extraer_montos(arg) = <<>>

AllFourAdditionalRules ==
  {"longitud_sospechosa", "mayusculas_excesivas", "multiples_exclamaciones",
   "urgencia_detectada"} \subseteq FiredTags

\* C25: a message in which none of the five primary categories is detected
\* is labelled smishing only if the four rules of length above 120,
\* uppercase ratio above 0.15, two or more '!' and urgency word all fire;
\* a message shorter than 10 characters with no primary indicator is
\* labelled ham.
C25_NoPrimaryNeedsAllFourRules ==
  (ClassifyReturned /\ IsStr(arg) /\ ~IsBlank(arg.s) /\ NoPrimaryIndicator) =>
    /\ ret.value.label = "smishing" => AllFourAdditionalRules
    /\ Len(arg.s) < 10 => ret.value.label = "ham"

C25_Witness ==
  /\ ClassifyReturned
  /\ IsStr(arg)
  /\ NoPrimaryIndicator
  /\ AllFourAdditionalRules
  /\ ret.value.label = "smishing"

----------------------------------------------------------------------------
(* One link, one entry                                                     *)

\* the link to ex.com in its four written forms: bare, www., http:// and
\* http://www.
OneLinkTexts ==
  LET http == <<"h", "t", "t", "p", ":", "/", "/">>
      www == <<"w", "w", "w", ".">>
      host == <<"e", "x", ".", "c", "o", "m", " ">>
  IN {PyStr(prefix \o host) : prefix \in {<<>>, www, http, http \o www}}

\* C26: a text that holds one link gives one entry of extraer_urls whatever
\* the written form of the link, and classify adds the URL weight 0.35 for
\* it once.
C26_OneLinkOneEntry ==
  arg \in OneLinkTexts =>
    /\ op = "extraer_urls" => Len(ret.value) = 1
    /\ op = "classify" => ret.value.score = InitialWeights.url

----------------------------------------------------------------------------
(* Results that callers write into                                         *)

\* C27: whatever callers did with the results of earlier calls, a call of
\* analizar_url_completo returns the es_sospechosa, es_acortada, dominio
\* and score_riesgo computed for its URL.
C27_ResultIndependentOfCallers ==
  op = "analizar_url_completo" => ret = analizar_url_completo(arg)

\* C28: whatever callers did with the 'pesos', 'pesos_adicionales' and
\* 'umbrales' entries of the results of get_model_info, classify scores and
\* labels with the original weights and thresholds.
C28_ModelInfoDetached ==
  (ClassifyReturned /\ IsStr(arg) /\ ~IsBlank(arg.s)) =>
    \A terms \in {ScoreTerms} :
      \A sum \in {ScoreSum(terms, Len(terms))} :
        /\ ret.value.score = Clamp(sum)
        /\ ret.value.label =
             (IF FGe(Clamp(sum), InitialClassificationThreshold) THEN "smishing" ELSE "ham")

----------------------------------------------------------------------------
(* The pipeline of infer_ml                                                *)

\* the path a call of load_pipeline with this argument looks at
PathOf(path) == IF path.truthy THEN path.s ELSE DefaultPath

\* C29: the pipeline is loaded at most once: a call of load_pipeline with no
\* pipeline loaded and no artifact file at its path returns None and leaves
\* none loaded, so that the next call looks again and loads the file once it
\* exists; with a pipeline loaded every call returns that pipeline and
\* leaves it in place, whatever its path argument.
C29_PipelineLoadedAtMostOnce ==
  [][(\E path \in {PyNone, PyStr(OtherPath)} : LoadPipeline(path)) =>
       /\ ret'.value = PIPELINE'
       /\ (~PIPELINE.loaded /\ artifact[PathOf(arg')] = "absent") => PIPELINE' = NoPipeline
       /\ (~PIPELINE.loaded /\ artifact[PathOf(arg')] # "absent") =>
            /\ PIPELINE'.loaded
            /\ PIPELINE'.from = PathOf(arg')
       /\ PIPELINE.loaded => PIPELINE' = PIPELINE]_vars

C29_Witness ==
  /\ op = "load_pipeline"
  /\ arg = PyStr(OtherPath)
  /\ artifact[OtherPath] # "absent"
  /\ PIPELINE.loaded
  /\ PIPELINE.from = DefaultPath
  /\ ret.value = PIPELINE

----------------------------------------------------------------------------
(* The fields of one result of analizar_url_completo                       *)

\* C30: in the result for a non-empty URL es_acortada implies
\* es_sospechosa, es_sospechosa implies score_riesgo >= 0.3, and a
\* score_riesgo of 0.0 implies that the URL is neither suspicious nor
\* shortened.
C30_FieldsConsistent ==
  AnalyzeReturned =>
    \A r \in {ret.value} :
      /\ r.es_acortada => r.es_sospechosa
      /\ r.es_sospechosa => FGe(r.score_riesgo, ThreeTenths)
      /\ r.score_riesgo = FZero => (~r.es_sospechosa /\ ~r.es_acortada)

C30_Witness ==
  /\ AnalyzeReturned
  /\ ret.value.es_sospechosa
  /\ ~ret.value.es_acortada
  /\ ret.value.score_riesgo = ThreeTenths
====
